---- MODULE Spec2Model ----
(***************************************************************************)
(* PoCGen: the attempt loop of generate_poc /                              *)
(* generate_command_injection_socket and the callback oracle               *)
(* (AttackerMonitor) it drives; the parse loop with parse_and_validate,    *)
(* and the remote validators, each on its own.                             *)
(*                                                                         *)
(* Abstractions: wall-clock time is a logical clock `now`; a host:port     *)
(* address is its port (every host of the model reaches the loopback       *)
(* interface); a request path is the sequence of its tokens, so that       *)
(* startswith("/_status") is a test on the first token.                    *)
(***************************************************************************)
EXTENDS Integers, Sequences, FiniteSets, TLC

\* ------------------------------------------------------------------ bounds
MaxTime == 2
MaxIters == 2
MaxMsgs == 3
MaxLines == 2
MaxBlocks == 3
MaxItems == 5

\* --------------------------------------------------------------- constants
MONITOR_PORT == 6666
\* A second port, for an attacker URL that overrides the default one.
OtherPort == MONITOR_PORT + 1
Ports == {MONITOR_PORT, OtherPort}

\* Python's None is the empty tuple and a present value x is <<x>>, so that
\* an optional field can always be compared with None.
NoneVal == <<>>
Some(x) == <<x>>
\* the empty string of a text field
EmptyStr == <<"">>
\* a list of texts with one entry, or none
If(cond, text) == IF cond THEN <<text>> ELSE <<>>
MonIds == {"run", "ext"}
Handlers == {1, 2}

VARIABLES
    now,        \* time.time(), a logical clock
    other_busy, \* ports bound by processes that are no monitor
    mon,        \* the AttackerMonitor objects: "run" (this run's), "ext" (another process's)
    thr,        \* the handler threads of ThreadingHTTPServer
    w,          \* the thread inside AttackerMonitor.wait_for_hit (owned mode)
    aux,        \* history variables of the monitor
    cfg,        \* the run's effective parameters (generator.py 113-118)
    pc,         \* position of the orchestrator, or in the function studied
    run,        \* locals of generate_poc, or of a function studied on its own
    attempts    \* the attempt history

monVars == <<now, other_busy, mon, thr, w, aux>>
runVars == <<cfg, pc, run, attempts>>
vars == <<now, other_busy, mon, thr, w, aux, cfg, pc, run, attempts>>

\* ---------------------------------------------------------- monitor object
\* AttackerMonitor.__init__
NewMonitor(port) ==
    [server |-> FALSE, listen_port |-> port, event |-> FALSE,
     last_hit_ts |-> NoneVal, last_request_summary |-> NoneVal,
     reused_existing |-> FALSE]

\* AttackerMonitor.is_running
is_running(m) == m.server \/ m.reused_existing

\* The three modes of the specification's state machine, read off the fields.
Mode(m) ==
    IF m.server THEN "Listening"
    ELSE IF m.reused_existing THEN "Reused" ELSE "Failed"

\* The monitor listening on port p, if any.
ListenerAt(p) == {m \in MonIds : mon[m].server /\ mon[m].listen_port = p}
PortInUse(p) == p \in other_busy \/ ListenerAt(p) # {}

\* `x or 0` / `x or ""` of handle_status
OrZero(x) == IF x = NoneVal THEN 0 ELSE x[1]
OrEmpty(x) == IF x = NoneVal THEN EmptyStr ELSE x[1]

\* -------------------------------------------------------- request handling
StatusTok == "/_status"

\* self.path.startswith("/_status")
IsStatusPath(path) == Len(path) > 0 /\ path[1] = StatusTok

\* params.get("clear", ["0"])[0] in {"1", "true", "yes"}
ClearAsked(clear) == clear \in {"1", "true", "yes"}

Req(command, path, clear, cl) ==
    [command |-> command, path |-> path, clear |-> clear, cl |-> cl]

\* the callback of an executed payload: wget <attacker_url>
WgetCallback == Req("GET", <<"/", "testpoc">>, "absent", "ok")
StatusProbe == Req("GET", <<StatusTok>>, "absent", "ok")
StatusClear == Req("GET", <<StatusTok>>, "1", "ok")

\* the requests a client may send: methods with and without a do_<METHOD>,
\* paths under, beside and outside /_status, and a POST whose
\* Content-Length is no integer
Requests ==
    { WgetCallback, StatusProbe, StatusClear,
      Req("POST", <<"/", "testpoc">>, "absent", "ok"),
      Req("POST", <<"/", "testpoc">>, "absent", "bad"),
      Req("PUT", <<"/", "testpoc">>, "absent", "ok"),
      Req("GET", <<StatusTok>>, "0", "ok"),
      Req("GET", <<StatusTok, "x">>, "absent", "ok") }

IdleThread ==
    [pc |-> "idle", mon |-> "", req |-> NoneVal, client |-> "",
     resp |-> NoneVal, recorded |-> FALSE]

\* BaseHTTPRequestHandler dispatch to do_GET / do_POST: where the thread
\* goes first.  A method without a do_<METHOD> is answered 501; do_POST
\* dies in int() on a malformed Content-Length.
Dispatch(r) ==
    IF r.command \notin {"GET", "POST"} THEN "unsupported"
    ELSE IF r.command = "POST" /\ r.cl = "bad" THEN "died"
    ELSE IF IsStatusPath(r.path) THEN "hs_read" ELSE "rh_fields"

\* The monitor is used on its own, outside generate_poc (_cli, a test); the
\* history variables of `aux` are kept for this use.
Standalone == pc = "monitor"

\* A request reaches the listener of monitor m and is given thread h.
Arrive(h, m, r, client) ==
    /\ thr[h].pc = "idle"
    /\ \A g \in Handlers : thr[g].pc = "idle" => h <= g
    /\ mon[m].server
    /\ LET d == Dispatch(r) IN
       thr' = [thr EXCEPT ![h] =
                 [IdleThread EXCEPT
                    !.pc = IF d = "unsupported" \/ d = "died" THEN "closed" ELSE d,
                    !.mon = m, !.req = Some(r), !.client = client,
                    !.resp = IF d = "unsupported"
                             THEN Some([code |-> 501, body |-> "Unsupported method"])
                             ELSE NoneVal]]

\* the rendered summary: time and request line (remote address and headers
\* are not distinguished by the model)
Summary(ts, r) == <<ts, r.command, r.path>>

\* record_hit, lines 95-104: timestamp and summary
HitFields(m, ts, r) ==
    [m EXCEPT !.last_hit_ts = Some(ts), !.last_request_summary = Some(Summary(ts, r))]

\* record_hit, line 105
HitEvent(m) == [m EXCEPT !.event = TRUE]

\* record_hit as a whole, lines 94-106
RecordHit(m, ts, r) == HitEvent(HitFields(m, ts, r))

RecordHitFields(h) ==
    /\ thr[h].pc = "rh_fields"
    /\ mon' = [mon EXCEPT ![thr[h].mon] = HitFields(mon[thr[h].mon], now, thr[h].req[1])]
    /\ thr' = [thr EXCEPT ![h].pc = "rh_event"]
    /\ UNCHANGED <<now, other_busy, w, aux>>
    /\ UNCHANGED runVars

\* record_hit, line 105, and the reply of do_GET, lines 39-44
RecordHitEvent(h) ==
    /\ thr[h].pc = "rh_event"
    /\ mon' = [mon EXCEPT ![thr[h].mon] = HitEvent(mon[thr[h].mon])]
    /\ thr' = [thr EXCEPT ![h].pc = "closed", ![h].recorded = TRUE,
                          ![h].resp = Some([code |-> 200, body |-> "OK"])]
    /\ aux' = IF Standalone
              THEN [aux EXCEPT !.fresh = TRUE, !.disturbed = FALSE, !.consumed = FALSE,
                               !.unseen = @ \/ w.pc # "wait"]
              ELSE aux
    /\ UNCHANGED <<now, other_busy, w>>
    /\ UNCHANGED runVars

\* the JSON body of handle_status, lines 113-121
StatusOf(m) ==
    [ok |-> TRUE, hit |-> m.event, hit_time |-> OrZero(m.last_hit_ts),
     summary |-> OrEmpty(m.last_request_summary)]

\* handle_status, lines 110-121; without clear also the reply, lines 127-131
StatusRead(h) ==
    /\ thr[h].pc = "hs_read"
    /\ thr' = [thr EXCEPT
                 ![h].pc = IF ClearAsked(thr[h].req[1].clear) THEN "hs_clear" ELSE "closed",
                 ![h].resp = Some([code |-> 200, body |-> StatusOf(mon[thr[h].mon])])]
    /\ UNCHANGED <<now, other_busy, mon, w, aux>>
    /\ UNCHANGED runVars

MutClearKeepsTs(m) ==
    [m EXCEPT !.event = FALSE, !.last_request_summary = NoneVal]

\* handle_status, lines 122-125
ClearState(m) ==
    [m EXCEPT !.event = FALSE, !.last_request_summary = NoneVal, !.last_hit_ts = NoneVal]

\* handle_status, lines 122-131
StatusClearState(h) ==
    /\ thr[h].pc = "hs_clear"
    /\ mon' = [mon EXCEPT ![thr[h].mon] = ClearState(mon[thr[h].mon])]
    /\ thr' = [thr EXCEPT ![h].pc = "closed"]
    /\ aux' = IF Standalone THEN [aux EXCEPT !.disturbed = TRUE] ELSE aux
    /\ UNCHANGED <<now, other_busy, w>>
    /\ UNCHANGED runVars

\* The connection of a client outside the run ends; the thread exits.
Release(h) ==
    /\ thr[h].pc = "closed"
    /\ thr[h].client = "env"
    /\ thr' = [thr EXCEPT ![h] = IdleThread]
    /\ UNCHANGED <<now, other_busy, mon, w, aux>>
    /\ UNCHANGED runVars

HandlerStep(h) ==
    \/ RecordHitFields(h) \/ RecordHitEvent(h)
    \/ StatusRead(h) \/ StatusClearState(h)
    \/ Release(h)

\* Any client sends any request to a listening monitor.
EnvRequest(h) ==
    /\ \E m \in MonIds, r \in Requests : Arrive(h, m, r, "env")
    /\ UNCHANGED <<now, other_busy, mon, w, aux>>
    /\ UNCHANGED runVars

\* The payload's callback, or a poll of another run, reaches a listening monitor.
EnvCallback(h) ==
    /\ \E m \in MonIds, r \in {WgetCallback, StatusClear} : Arrive(h, m, r, "env")
    /\ UNCHANGED <<now, other_busy, mon, w, aux>>
    /\ UNCHANGED runVars

\* time passes
Tick ==
    /\ now < MaxTime
    /\ now' = now + 1
    /\ UNCHANGED <<other_busy, mon, thr, w, aux>>
    /\ UNCHANGED runVars

\* ------------------------------------------------- wait_for_hit, owned mode
IdleWait == [pc |-> "idle", result |-> FALSE, caller |-> "",
             was_fresh |-> FALSE, was_disturbed |-> FALSE]

\* wait_for_hit is entered on a monitor with a server (line 134)
EnterWait(caller) == [IdleWait EXCEPT !.pc = "wait", !.caller = caller]

\* self._event.wait(wait_timeout), line 136: true as soon as the event is set,
\* false when the timeout passes with the event unset
EventWait(event) == event

MutNeverClears(hit) == FALSE

\* line 137: `if hit: self._event.clear()`
ClearsAfter(hit) == hit

WaitReturns ==
    /\ w.pc = "wait"
    /\ LET hit == EventWait(mon["run"].event) IN
       /\ w' = [w EXCEPT !.pc = IF ClearsAfter(hit) THEN "clear" ELSE "ret",
                         !.result = hit,
                         !.was_fresh = aux.fresh,
                         !.was_disturbed = aux.disturbed]
       /\ aux' = IF hit /\ Standalone
                 THEN [aux EXCEPT !.fresh = FALSE, !.consumed = TRUE, !.unseen = FALSE]
                 ELSE aux
    /\ UNCHANGED <<now, other_busy, mon, thr>>
    /\ UNCHANGED runVars

\* line 138
WaitClear ==
    /\ w.pc = "clear"
    /\ mon' = [mon EXCEPT !["run"].event = FALSE]
    /\ w' = [w EXCEPT !.pc = "ret"]
    /\ aux' = IF Standalone THEN [aux EXCEPT !.disturbed = TRUE] ELSE aux
    /\ UNCHANGED <<now, other_busy, thr>>
    /\ UNCHANGED runVars

\* ------------------------------------------- the monitor on its own (_cli, tests)
\* A caller outside generate_poc (a test, another component) waits on the
\* listening monitor and takes the result.
DriverCallsWait ==
    /\ pc = "monitor"
    /\ w.pc = "idle"
    /\ mon["run"].server
    /\ w' = EnterWait("driver")
    /\ UNCHANGED <<now, other_busy, mon, thr, aux>>
    /\ UNCHANGED runVars

DriverTakesResult ==
    /\ pc = "monitor"
    /\ w.pc = "ret"
    /\ w.caller = "driver"
    /\ w' = IdleWait
    /\ UNCHANGED <<now, other_busy, mon, thr, aux>>
    /\ UNCHANGED runVars

\* fresh: a hit was recorded and no wait has returned true since;
\* disturbed: the event was cleared since the last recorded hit;
\* consumed: a wait has returned true and no hit was recorded since;
\* unseen: a hit was recorded while no thread was at the wait of
\* wait_for_hit, and no wait has returned true since
InitAux == [fresh |-> FALSE, disturbed |-> FALSE, consumed |-> FALSE, unseen |-> FALSE]

\* ------------------------------------------------------ generate_poc: setup
Max(a, b) == IF a >= b THEN a ELSE b

\* lines 113-115: max(1, max_iterations or SETTINGS.max_iterations), forced
\* to 1 without auto_validate.  An absent argument is NoneVal.
\* `max_iterations or SETTINGS.max_iterations`, line 113
AskedIters(max_iterations, settings_max_iterations) ==
    IF max_iterations = NoneVal \/ max_iterations[1] = 0
    THEN settings_max_iterations ELSE max_iterations[1]

MutNotForced(max_iterations, settings_max_iterations, auto_validate) ==
    Max(1, AskedIters(max_iterations, settings_max_iterations))

EffectiveMaxIters(max_iterations, settings_max_iterations, auto_validate) ==
    IF ~auto_validate THEN 1
    ELSE Max(1, AskedIters(max_iterations, settings_max_iterations))

\* line 116
StopAfterSuccess(stop_on_success, settings_stop_on_success) ==
    IF stop_on_success = NoneVal THEN settings_stop_on_success ELSE stop_on_success[1]

\* line 139 (`if auto_validate and atk_url`); the Socket.IO variant has
\* `if auto_validate` (socket_command_injection.py 138)
MonitorWanted(variant, auto_validate, atk_url_given) ==
    IF variant = "http" THEN auto_validate /\ atk_url_given ELSE auto_validate

\* The port the run probes and binds: that of attacker_url (generator.py
\* 140, 147), of get_monitor_base_url() in the Socket.IO variant (125, 145).
MonitorPortOf(variant, atk_port) ==
    IF variant = "http" THEN atk_port ELSE MONITOR_PORT

\* The turns of the conversation: a role and a content.
ChatMessage(role, content) == [role |-> role, content |-> content]

\* lines 130-137: what build_messages returns (prompts.py), the system
\* prompt and the user prompt of the task
InitialMessages ==
    <<ChatMessage("system", "prompt"), ChatMessage("user", "task")>>

InitRun ==
    [monitor |-> FALSE, external_monitor_url |-> 0, monitor_running |-> FALSE,
     generation_start_ts |-> 0, bind_errno |-> "",
     attempt_index |-> 0, started |-> 0, gen_ts |-> 0,
     kind |-> "", have_requests |-> FALSE, validation |-> "none", replayed |-> FALSE,
     polled |-> FALSE, since |-> NoneVal,
     waited |-> FALSE, monitor_hit |-> FALSE, hit_ts |-> 0,
     overall_success |-> FALSE, exc |-> "", stop_log |-> {},
     chat_log |-> FALSE, saved |-> FALSE,
     feedback_text |-> NoneVal, fed |-> FALSE,
     sampler |-> "", target_profile |-> FALSE, profiled |-> FALSE,
     last_saved |-> FALSE, steps |-> <<>>,
     conversation_messages |-> InitialMessages, messages |-> <<>>, raw_output |-> "",
     last_raw_output |-> "", last_requests |-> FALSE,
     last_validation_results |-> "none"]

NoCfg == [variant |-> "http", key |-> "command_injection_http",
          auto_validate |-> FALSE, has_target |-> FALSE,
          monitor_wanted |-> FALSE, mon_port |-> MONITOR_PORT,
          asked_iters |-> 1, max_iters |-> 1, stop_after_success |-> TRUE,
          probe_target |-> FALSE, use_browser_login |-> FALSE]

\* generator.py 53-55
HANDLERS == {"command_injection_http"}

\* the vuln-type keys of the model: the registered one, the name of the
\* Socket.IO handler, one no handler has
VulnTypes == {"command_injection_http", "command_injection_socket", "sql_injection"}

\* `vuln_type or SETTINGS.default_vuln_type`, line 59; the Socket.IO variant
\* has `vuln_type or CommandInjectionSocketHandler.name`
\* (socket_command_injection.py 83)
HandlerKey(variant, vuln_type, default_vuln_type) ==
    IF vuln_type # NoneVal THEN vuln_type[1]
    ELSE IF variant = "http" THEN default_vuln_type ELSE "command_injection_socket"

\* the keys a caller passes: generate_poc any, generate_command_injection_socket
\* (which looks nothing up) its own or none
KeysPassed(variant) ==
    IF variant = "http" THEN {NoneVal} \cup {Some(k) : k \in VulnTypes}
    ELSE {NoneVal, Some("command_injection_socket")}

\* whether a target is passed: the Socket.IO variant, which reads `target`
\* in no condition of its loop (socket_command_injection.py 236), is run
\* with one
TargetsPassed(variant) == IF variant = "http" THEN BOOLEAN ELSE {TRUE}

\* the effective parameters of a call of generate_poc (variant "http") or
\* generate_command_injection_socket, for any arguments and settings, the
\* flags probe_target and use_browser_login taken from `flags`
ConfigsOf(variant, flags) ==
    {[variant |-> variant,
      key |-> HandlerKey(variant, vuln_type, default_vuln_type),
      auto_validate |-> auto_validate,
      has_target |-> has_target,
      monitor_wanted |-> MonitorWanted(variant, auto_validate, atk_url_given),
      mon_port |-> MonitorPortOf(variant, atk_port),
      asked_iters |-> Max(1, AskedIters(max_iterations, settings_max_iterations)),
      max_iters |-> EffectiveMaxIters(max_iterations, settings_max_iterations, auto_validate),
      stop_after_success |-> StopAfterSuccess(stop_on_success, settings_stop_on_success),
      probe_target |-> probe_target,
      use_browser_login |-> use_browser_login] :
        auto_validate \in BOOLEAN, has_target \in TargetsPassed(variant),
        atk_port \in Ports, atk_url_given \in BOOLEAN,
        vuln_type \in KeysPassed(variant),
        default_vuln_type \in {"command_injection_http", "sql_injection"},
        max_iterations \in {NoneVal} \cup {Some(n) : n \in (0 - 1)..MaxIters},
        settings_max_iterations \in 0..MaxIters,
        stop_on_success \in {NoneVal, Some(TRUE), Some(FALSE)},
        settings_stop_on_success \in BOOLEAN,
        probe_target \in flags, use_browser_login \in flags}

Configs(flags) == ConfigsOf("http", flags) \cup ConfigsOf("socket", flags)

\* generate_poc / generate_command_injection_socket entered with any
\* arguments and settings, probe_target and use_browser_login as by default
\* (lines 74, 85): nothing looked up, logged, probed or bound yet.
Init ==
    /\ now = 1
    /\ mon = [m \in MonIds |-> NewMonitor(MONITOR_PORT)]
    /\ thr = [h \in Handlers |-> IdleThread]
    /\ w = IdleWait
    /\ aux = InitAux
    /\ cfg \in Configs({FALSE})
    /\ other_busy \in (IF cfg.monitor_wanted THEN {{}, {cfg.mon_port}} ELSE {{}})
    /\ pc = "entry"
    /\ run = InitRun
    /\ attempts = <<>>

\* get_handler, lines 58-63: the key has a handler
Supported(key) == key \in HANDLERS

MutLogBeforeLookup ==
    /\ pc = "entry"
    /\ cfg.variant = "http"
    /\ ~Supported(cfg.key)
    /\ run' = [run EXCEPT !.exc = "unsupported", !.chat_log = TRUE]
    /\ pc' = "rejected"
    /\ UNCHANGED <<cfg, attempts>>
    /\ UNCHANGED monVars

\* line 88 with get_handler 60-62: ValueError("Unsupported vuln type: ...")
\* leaves generate_poc from its first statement
GetHandlerRaises ==
    /\ pc = "entry"
    /\ cfg.variant = "http"
    /\ ~Supported(cfg.key)
    /\ run' = [run EXCEPT !.exc = "unsupported"]
    /\ pc' = "rejected"
    /\ UNCHANGED <<cfg, attempts>>
    /\ UNCHANGED monVars

\* lines 88-111: the handler is there (the Socket.IO variant constructs its
\* own, socket_command_injection.py 84); the chat log directory is made and
\* the first entry written
Enter ==
    /\ pc = "entry"
    /\ cfg.variant = "http" => Supported(cfg.key)
    /\ run' = [run EXCEPT !.chat_log = TRUE]
    /\ pc' = "setup"
    /\ UNCHANGED <<cfg, attempts>>
    /\ UNCHANGED monVars

\* The run has not yet settled which monitor it uses.
SettingUp == pc \in {"setup", "mon_create"}

\* The run reads the state of the other process's monitor.
SharesExt == run.external_monitor_url # 0 \/ mon["run"].reused_existing

\* Another process starts a monitor of its own on a free port (what it does
\* once the run has settled on a monitor is of no consequence to the run).
ExtStart ==
    /\ SettingUp
    /\ ~mon["ext"].server
    /\ \E p \in Ports :
          /\ ~PortInUse(p)
          /\ mon' = [mon EXCEPT !["ext"] = [NewMonitor(p) EXCEPT !.server = TRUE]]
    /\ UNCHANGED <<now, other_busy, thr, w, aux>>
    /\ UNCHANGED runVars

\* handle_status as a whole (lines 108-131) on monitor m: the state after it
AfterStatus(m, r) == IF ClearAsked(r.clear) THEN ClearState(m) ELSE m

\* monitor_available, lines 172-176, on the body of a reply
StatusOk(body) == body.ok = TRUE

\* line 139 false: no monitor for this run
SetupNoMonitor ==
    /\ pc = "setup"
    /\ ~cfg.monitor_wanted
    /\ pc' = "gen_start"
    /\ UNCHANGED <<cfg, run, attempts>>
    /\ UNCHANGED monVars

\* line 140: nothing that answers as a monitor at atk_url -> False
ProbeRefused ==
    /\ pc = "setup"
    /\ cfg.monitor_wanted
    /\ ListenerAt(cfg.mon_port) = {}
    /\ pc' = "mon_create"
    /\ UNCHANGED <<cfg, run, attempts>>
    /\ UNCHANGED monVars

\* lines 140-143: a monitor answers GET /_status at atk_url
ProbeFound ==
    /\ pc = "setup"
    /\ cfg.monitor_wanted
    /\ \E m \in ListenerAt(cfg.mon_port) :
          /\ StatusOk(StatusOf(mon[m]))
          /\ mon' = [mon EXCEPT ![m] = AfterStatus(mon[m], StatusProbe)]
    /\ run' = [run EXCEPT !.external_monitor_url = cfg.mon_port, !.monitor_running = TRUE]
    /\ pc' = "reset"
    /\ UNCHANGED <<now, other_busy, thr, w, aux, cfg, attempts>>

\* line 145: reset_external_monitor(atk_url), GET /_status?clear=1
Reset ==
    /\ pc = "reset"
    /\ \E m \in ListenerAt(run.external_monitor_url) :
          mon' = [mon EXCEPT ![m] = AfterStatus(mon[m], StatusClear)]
    /\ pc' = "gen_start"
    /\ UNCHANGED <<now, other_busy, thr, w, aux, cfg, run, attempts>>

\* The outcomes of ThreadingHTTPServer((host, port), ...), line 76.
BindOutcomes(p) == IF PortInUse(p) THEN {"EADDRINUSE"} ELSE {"ok", "EACCES"}

\* The address start() probes after EADDRINUSE: get_monitor_base_url(), line 78
StartProbePort(listen_port) == MONITOR_PORT

\* start(), lines 74-89, on a new monitor for `port`, the bind ending in e:
\* the monitor after it
Started(port, e) ==
    [NewMonitor(port) EXCEPT
        !.server = (e = "ok"),
        !.reused_existing =
            /\ e = "EADDRINUSE"
            /\ \E m \in ListenerAt(StartProbePort(port)) : StatusOk(StatusOf(mon[m]))]

\* lines 147-149: AttackerMonitor(atk_url), start(), is_running()
MonitorStart ==
    /\ pc = "mon_create"
    /\ \E e \in BindOutcomes(cfg.mon_port) :
          /\ mon' = [mon EXCEPT !["run"] = Started(cfg.mon_port, e)]
          /\ run' = [run EXCEPT !.monitor = TRUE, !.bind_errno = e,
                                !.monitor_running = is_running(mon'["run"])]
    /\ pc' = "gen_start"
    /\ UNCHANGED <<now, other_busy, thr, w, aux, cfg, attempts>>

\* line 153
GenStart ==
    /\ pc = "gen_start"
    /\ run' = [run EXCEPT !.generation_start_ts = now]
    /\ pc' = "sample"
    /\ UNCHANGED <<cfg, attempts>>
    /\ UNCHANGED monVars

\* lines 159-160: the sampler is called
SamplerCalled(probe_target, has_target, use_browser_login) ==
    probe_target /\ has_target /\ use_browser_login

\* lines 159, 176-177: no sampling
SampleSkipped ==
    /\ pc = "sample"
    /\ ~SamplerCalled(cfg.probe_target, cfg.has_target, cfg.use_browser_login)
    /\ run' = [run EXCEPT !.sampler = "skipped"]
    /\ pc' = "loop"
    /\ UNCHANGED <<cfg, attempts>>
    /\ UNCHANGED monVars

\* lines 161-173: sample_target_with_playwright returns a sample
SampleReturns ==
    /\ pc = "sample"
    /\ SamplerCalled(cfg.probe_target, cfg.has_target, cfg.use_browser_login)
    /\ run' = [run EXCEPT !.sampler = "sample", !.target_profile = TRUE]
    /\ pc' = "loop"
    /\ UNCHANGED <<cfg, attempts>>
    /\ UNCHANGED monVars

\* lines 161-175: the sampler raises; `except Exception` prints a warning
SampleRaises ==
    /\ pc = "sample"
    /\ SamplerCalled(cfg.probe_target, cfg.has_target, cfg.use_browser_login)
    /\ run' = [run EXCEPT !.sampler = "failed"]
    /\ pc' = "loop"
    /\ UNCHANGED <<cfg, attempts>>
    /\ UNCHANGED monVars

\* ---------------------------------------------- generate_poc: attempt loop
\* the per-attempt locals, as they are when an iteration begins
FreshAttempt(r) ==
    [r EXCEPT !.kind = "", !.have_requests = FALSE, !.validation = "none",
              !.replayed = FALSE, !.polled = FALSE, !.since = NoneVal,
              !.waited = FALSE, !.monitor_hit = FALSE, !.hit_ts = 0, !.gen_ts = 0,
              !.saved = FALSE, !.fed = FALSE, !.profiled = FALSE, !.steps = <<>>,
              !.messages = <<>>, !.raw_output = ""]

\* a Python string, here a sequence of sections, is true when not empty
Truthy(text) == text # NoneVal /\ Len(text[1]) > 0

\* lines 190-191: the input of the LLM call gets the user turn `Feedback
\* from previous attempt` when feedback_text is set
FeedbackTurn(feedback_text) == Truthy(feedback_text)

\* lines 188-189: the input of the LLM call gets the user turn `Updated
\* target profile` when there is a profile
ProfileTurn(target_profile) == target_profile

\* The reply of the LLM call of the attempt with this index, as a text.
RawOutput(attempt_index) ==
    CASE attempt_index = 0 -> "reply 0"
      [] attempt_index = 1 -> "reply 1"
      [] attempt_index = 2 -> "reply 2"
      [] OTHER -> "reply 3"

\* lines 186-191: the input of the LLM call, a copy of the conversation
\* with the user turns of the target profile and of the feedback
LLMInput(conversation_messages, target_profile, feedback_text) ==
    conversation_messages
    \o (IF ProfileTurn(target_profile)
        THEN <<ChatMessage("user", "Updated target profile")>> ELSE <<>>)
    \o (IF FeedbackTurn(feedback_text)
        THEN <<ChatMessage("user", feedback_text[1])>> ELSE <<>>)

MutFeedbackIntoTranscript ==
    /\ pc = "loop"
    /\ run.attempt_index < cfg.max_iters
    /\ run' = [run EXCEPT !.started = @ + 1, !.gen_ts = now,
                          !.fed = FeedbackTurn(run.feedback_text),
                          !.profiled = ProfileTurn(run.target_profile),
                          !.conversation_messages =
                              LLMInput(run.conversation_messages,
                                       run.target_profile, run.feedback_text),
                          !.messages =
                              LLMInput(run.conversation_messages,
                                       run.target_profile, run.feedback_text)]
    /\ pc' = "llm"
    /\ UNCHANGED <<cfg, attempts>>
    /\ UNCHANGED monVars

\* `for attempt_index in range(max_iters)`, line 179: one more iteration,
\* up to the LLM call of line 200
LoopNext ==
    /\ pc = "loop"
    /\ run.attempt_index < cfg.max_iters
    /\ run' = [run EXCEPT !.started = @ + 1, !.gen_ts = now,
                          !.fed = FeedbackTurn(run.feedback_text),
                          !.profiled = ProfileTurn(run.target_profile),
                          !.messages =
                              LLMInput(run.conversation_messages,
                                       run.target_profile, run.feedback_text)]
    /\ pc' = "llm"
    /\ UNCHANGED <<cfg, attempts>>
    /\ UNCHANGED monVars

\* line 179 exhausted, then `return GenerationResult(...)`, lines 326-333
LoopEnd ==
    /\ pc = "loop"
    /\ run.attempt_index >= cfg.max_iters
    /\ pc' = "finally"
    /\ UNCHANGED <<cfg, run, attempts>>
    /\ UNCHANGED monVars

\* what the model's reply is to the splitter and parser: only white space,
\* text that parses, or text that does not
ReplyKinds == {"blank", "good", "garbled"}

\* lines 198-207: client.chat returns
LLMReturns ==
    /\ pc = "llm"
    /\ \E k \in ReplyKinds :
          run' = [run EXCEPT !.kind = k, !.steps = <<"chat">>,
                             !.raw_output = RawOutput(run.attempt_index),
                             !.conversation_messages =
                                 Append(@, ChatMessage("assistant",
                                                       RawOutput(run.attempt_index)))]
    /\ pc' = "post"
    /\ UNCHANGED <<cfg, attempts>>
    /\ UNCHANGED monVars

\* lines 198-203: client.chat raises (llm/client.py 89-92); nothing catches it
LLMRaises ==
    /\ pc = "llm"
    /\ run' = [run EXCEPT !.exc = "llm"]
    /\ pc' = "finally"
    /\ UNCHANGED <<cfg, attempts>>
    /\ UNCHANGED monVars

\* lines 209-235: the attempt has messages when the splitter returned a
\* block; the HTTP loop keeps a placeholder for a block that does not
\* parse, the Socket.IO loop (226-232) drops it
HaveRequests(variant, kind) ==
    IF variant = "http" THEN kind # "blank" ELSE kind = "good"

\* lines 213-214: save_messages is called when the splitter returned a block
Saved(kind) == kind # "blank"

\* the steps of lines 209-235 in the order of the code: split_messages,
\* save_messages when there is a block, the parse loop
PostSteps(kind) ==
    <<"split">> \o (IF Saved(kind) THEN <<"save">> ELSE <<>>) \o <<"parse">>

\* the oracle step right after the parse loop, the replay left out
MutPostSkipsReplay ==
    /\ pc = "post"
    /\ run' = [run EXCEPT !.have_requests = HaveRequests(cfg.variant, run.kind),
                          !.saved = Saved(run.kind),
                          !.steps = @ \o PostSteps(run.kind),
                          !.kind = ""]
    /\ pc' = "oracle"
    /\ UNCHANGED <<cfg, attempts>>
    /\ UNCHANGED monVars

\* lines 209-235: split, save, parse
PostProcess ==
    /\ pc = "post"
    /\ run' = [run EXCEPT !.have_requests = HaveRequests(cfg.variant, run.kind),
                          !.saved = Saved(run.kind),
                          !.steps = @ \o PostSteps(run.kind),
                          !.kind = ""]
    /\ pc' = "replay"
    /\ UNCHANGED <<cfg, attempts>>
    /\ UNCHANGED monVars

\* line 214: save_messages raises (os.makedirs, open); nothing catches it
SaveRaises ==
    /\ pc = "post"
    /\ run.kind # "blank"
    /\ run' = [run EXCEPT !.exc = "save"]
    /\ pc' = "finally"
    /\ UNCHANGED <<cfg, attempts>>
    /\ UNCHANGED monVars

\* line 239; socket_command_injection.py 236 does not ask for a target
ReplayWanted(variant, auto_validate, has_target, have_requests) ==
    IF variant = "http" THEN auto_validate /\ has_target /\ have_requests
    ELSE auto_validate /\ have_requests

MutReplayPropagates ==
    /\ pc = "replay"
    /\ IF ReplayWanted(cfg.variant, cfg.auto_validate, cfg.has_target, run.have_requests)
       THEN \E v \in {"results", "error"} :
               /\ run' = [run EXCEPT !.validation = v, !.replayed = TRUE,
                                     !.steps = Append(@, "replay"),
                                     !.exc = IF v = "error" THEN "replay" ELSE @]
               /\ pc' = IF v = "error" THEN "finally" ELSE "oracle"
       ELSE run' = run /\ pc' = "oracle"
    /\ UNCHANGED <<cfg, attempts>>
    /\ UNCHANGED monVars

\* lines 237-264: the remote validator returns results, or raises and is caught
Replay ==
    /\ pc = "replay"
    /\ IF ReplayWanted(cfg.variant, cfg.auto_validate, cfg.has_target, run.have_requests)
       THEN \E v \in {"results", "error"} :
               run' = [run EXCEPT !.validation = v, !.replayed = TRUE,
                                  !.steps = Append(@, "replay")]
       ELSE run' = run
    /\ pc' = "oracle"
    /\ UNCHANGED <<cfg, attempts>>
    /\ UNCHANGED monVars

\* line 268
OracleWanted(monitor_running, have_requests) == monitor_running /\ have_requests

\* lines 266-268: no wait
OracleSkip ==
    /\ pc = "oracle"
    /\ ~OracleWanted(run.monitor_running, run.have_requests)
    /\ pc' = "record"
    /\ UNCHANGED <<cfg, run, attempts>>
    /\ UNCHANGED monVars

\* lines 269-272: wait_for_external_monitor(url, wait, since_ts = generation_start_ts)
OracleExternal ==
    /\ pc = "oracle"
    /\ OracleWanted(run.monitor_running, run.have_requests)
    /\ run.external_monitor_url # 0
    /\ run' = [run EXCEPT !.waited = TRUE, !.since = Some(run.generation_start_ts),
                          !.steps = Append(@, "wait")]
    /\ pc' = "poll"
    /\ UNCHANGED <<cfg, attempts>>
    /\ UNCHANGED monVars

\* line 274 with wait_for_hit, lines 134-136: the run's own server
OracleOwned ==
    /\ pc = "oracle"
    /\ OracleWanted(run.monitor_running, run.have_requests)
    /\ run.external_monitor_url = 0
    /\ mon["run"].server
    /\ w.pc = "idle"
    /\ w' = EnterWait("run")
    /\ run' = [run EXCEPT !.waited = TRUE, !.steps = Append(@, "wait")]
    /\ pc' = "waiting"
    /\ UNCHANGED <<now, other_busy, mon, thr, aux, cfg, attempts>>

\* the since_ts wait_for_hit hands to wait_for_external_monitor, line 141
ReusedSince(generation_start_ts) == NoneVal

\* line 274 with wait_for_hit, lines 140-141: Reused mode
OracleReused ==
    /\ pc = "oracle"
    /\ OracleWanted(run.monitor_running, run.have_requests)
    /\ run.external_monitor_url = 0
    /\ ~mon["run"].server
    /\ mon["run"].reused_existing
    /\ run' = [run EXCEPT !.waited = TRUE, !.since = ReusedSince(run.generation_start_ts),
                          !.steps = Append(@, "wait")]
    /\ pc' = "poll"
    /\ UNCHANGED <<cfg, attempts>>
    /\ UNCHANGED monVars

\* the address polled: external_monitor_url, or get_monitor_base_url() in
\* Reused mode (line 141)
PollPort == IF run.external_monitor_url # 0 THEN run.external_monitor_url ELSE MONITOR_PORT

\* line 203
SinceOk(since_ts, hit_time) == since_ts = NoneVal \/ hit_time >= since_ts[1]

\* `data.get("summary") or None`, line 201
OrNone(text) == IF text = EmptyStr THEN NoneVal ELSE Some(text)

\* wait_for_external_monitor, lines 196-207: one poll, GET /_status?clear=1,
\* before the deadline; then lines 142-144 (Reused) or 270 (external)
Poll ==
    /\ pc = "poll"
    /\ \E m \in ListenerAt(PollPort) :
        LET data == StatusOf(mon[m])
            credited == data.hit /\ SinceOk(run.since, data.hit_time)
            cleared == [mon EXCEPT ![m] = AfterStatus(mon[m], StatusClear)]
        IN IF credited
           THEN /\ run' = [run EXCEPT !.monitor_hit = TRUE, !.hit_ts = data.hit_time]
                /\ mon' = IF run.external_monitor_url = 0
                          THEN [cleared EXCEPT !["run"].last_request_summary =
                                                    OrNone(data.summary)]
                          ELSE cleared
                /\ pc' = "record"
           ELSE /\ run' = [run EXCEPT !.polled = TRUE]
                /\ mon' = cleared
                /\ pc' = "poll"
    /\ UNCHANGED <<now, other_busy, thr, w, aux, cfg, attempts>>

\* line 196 false after a poll: the deadline passed; lines 208, 270-275
PollTimeout ==
    /\ pc = "poll"
    /\ run.polled
    /\ run' = [run EXCEPT !.monitor_hit = FALSE]
    /\ pc' = "record"
    /\ UNCHANGED <<cfg, attempts>>
    /\ UNCHANGED monVars

\* lines 274-275: wait_for_hit returned
WaitDone ==
    /\ pc = "waiting"
    /\ w.pc = "ret"
    /\ w.caller = "run"
    /\ run' = [run EXCEPT !.monitor_hit = w.result,
                          !.hit_ts = IF w.result THEN OrZero(mon["run"].last_hit_ts) ELSE 0]
    /\ w' = IdleWait
    /\ pc' = "record"
    /\ UNCHANGED <<now, other_busy, mon, thr, aux, cfg, attempts>>

\* the section of the feedback on the replay, lines 349-382
ValidationSection(validation) ==
    CASE validation = "results" -> "Target validation summary"
      [] validation = "error" -> "Target validation did not run due to error"
      [] OTHER -> "Target validation did not run or returned no results."

MutAlwaysNoCallback(monitor_active) ==
    "Attacker monitor did NOT receive the expected wget callback"

\* the notice on the oracle, lines 384-393
OracleNotice(monitor_active) ==
    IF monitor_active THEN "Attacker monitor did NOT receive the expected wget callback"
    ELSE "Attacker monitor is unavailable"

\* _build_attempt_feedback, lines 337-404: the text as the sequence of its
\* sections on the replay and on the oracle (the list of parse issues,
\* lines 345-347, and the closing advice, 395-402, are not carried)
BuildAttemptFeedback(validation, monitor_active) ==
    LET messages == <<ValidationSection(validation)>> \o <<OracleNotice(monitor_active)>>
    IN IF Len(messages) > 0 THEN Some(messages) ELSE NoneVal

MutFeedbackAlways(monitor_hit, text) == text

\* lines 286-294: feedback_for_next
FeedbackForNext(monitor_hit, text) == IF ~monitor_hit THEN text ELSE NoneVal

MutLastOnly(overall_success, monitor_hit) == monitor_hit

\* line 313
OverallSuccess(overall_success, monitor_hit) == overall_success \/ monitor_hit

\* line 316
BreakNow(monitor_hit, stop_after_success) == monitor_hit /\ stop_after_success

\* lines 296-307
\* (with, for an attempt credited with a hit, the time its LLM call began
\* and the timestamp of the hit)
AttemptResult(r) ==
    [attempt_index |-> r.attempt_index, saved |-> r.saved, fed |-> r.fed,
     profiled |-> r.profiled, raw_output |-> r.raw_output,
     feedback |-> FeedbackForNext(r.monitor_hit,
                      BuildAttemptFeedback(r.validation, r.monitor_running)),
     have_requests |-> r.have_requests, validation |-> r.validation,
     replayed |-> r.replayed, waited |-> r.waited,
     monitor_hit |-> r.monitor_hit,
     steps |-> r.steps \o (IF r.monitor_hit THEN <<>> ELSE <<"feedback">>) \o <<"append">>,
     credit |-> IF r.monitor_hit THEN Some([gen_ts |-> r.gen_ts, hit_ts |-> r.hit_ts])
                ELSE NoneVal]

\* lines 326-333: the result the run returns
GenerationResult(r, history) ==
    [raw_output |-> r.last_raw_output, requests |-> r.last_requests,
     saved_paths |-> r.last_saved,
     validation_results |-> r.last_validation_results,
     attempts |-> history, success |-> r.overall_success]

MutKeepsSuccessfulAttempt ==
    /\ pc = "record"
    /\ attempts' = Append(attempts, AttemptResult(run))
    /\ LET keep == run.overall_success /\ ~run.monitor_hit
           r1 == [run EXCEPT !.overall_success =
                                 OverallSuccess(run.overall_success, run.monitor_hit),
                             !.feedback_text = AttemptResult(run).feedback,
                             !.last_saved = IF keep THEN @ ELSE run.saved,
                             !.last_raw_output = IF keep THEN @ ELSE run.raw_output,
                             !.last_requests = IF keep THEN @ ELSE run.have_requests,
                             !.last_validation_results =
                                 IF keep THEN @ ELSE run.validation]
       IN IF BreakNow(run.monitor_hit, cfg.stop_after_success)
          THEN /\ run' = FreshAttempt(r1)
               /\ pc' = "finally"
          ELSE /\ run' = FreshAttempt([r1 EXCEPT !.attempt_index = @ + 1])
               /\ pc' = "loop"
    /\ UNCHANGED cfg
    /\ UNCHANGED monVars

\* lines 286-318: the attempt is appended; break, or the next iteration
Record ==
    /\ pc = "record"
    /\ attempts' = Append(attempts, AttemptResult(run))
    /\ LET r1 == [run EXCEPT !.overall_success =
                                 OverallSuccess(run.overall_success, run.monitor_hit),
                             !.feedback_text = AttemptResult(run).feedback,
                             !.last_saved = run.saved,
                             !.last_raw_output = run.raw_output,
                             !.last_requests = run.have_requests,
                             !.last_validation_results = run.validation]
       IN IF BreakNow(run.monitor_hit, cfg.stop_after_success)
          THEN /\ run' = FreshAttempt(r1)
               /\ pc' = "finally"
          ELSE /\ run' = FreshAttempt([r1 EXCEPT !.attempt_index = @ + 1])
               /\ pc' = "loop"
    /\ UNCHANGED cfg
    /\ UNCHANGED monVars

MutStopKeepsFlag(m) == [m EXCEPT !.server = FALSE, !.event = FALSE]

\* AttackerMonitor.stop, lines 147-156
Stop(m) == [m EXCEPT !.server = FALSE, !.event = FALSE, !.reused_existing = FALSE]

MutStopOnlyOnReturn ==
    /\ pc = "finally"
    /\ IF run.monitor /\ run.exc = ""
       THEN /\ mon' = [mon EXCEPT !["run"] = Stop(mon["run"])]
            /\ run' = [run EXCEPT !.stop_log = @ \cup {Mode(mon["run"])}]
       ELSE /\ mon' = mon
            /\ run' = run
    /\ pc' = IF run.exc # "" THEN "raised" ELSE "returned"
    /\ UNCHANGED <<now, other_busy, thr, w, aux, cfg, attempts>>

\* lines 334-336: `if monitor: monitor.stop()`, on return and on an exception
Finally ==
    /\ pc = "finally"
    /\ IF run.monitor
       THEN /\ mon' = [mon EXCEPT !["run"] = Stop(mon["run"])]
            /\ run' = [run EXCEPT !.stop_log = @ \cup {Mode(mon["run"])}]
       ELSE /\ mon' = mon
            /\ run' = run
    /\ pc' = IF run.exc # "" THEN "raised" ELSE "returned"
    /\ UNCHANGED <<now, other_busy, thr, w, aux, cfg, attempts>>

\* The wget callback of a payload, or a stray request, reaches a listener.
EnvHit ==
    /\ \E m \in MonIds :
          /\ mon[m].server
          /\ m = "ext" => SettingUp \/ pc = "reset" \/ SharesExt
          /\ mon' = [mon EXCEPT ![m] = RecordHit(mon[m], now, WgetCallback)]
    /\ UNCHANGED <<now, other_busy, thr, w, aux>>
    /\ UNCHANGED runVars

Next ==
    \/ GetHandlerRaises \/ Enter
    \/ SetupNoMonitor \/ ProbeRefused \/ ProbeFound
    \/ Reset
    \/ MonitorStart
    \/ GenStart
    \/ SampleSkipped
    \/ LoopNext \/ LoopEnd
    \/ LLMReturns \/ LLMRaises
    \/ PostProcess \/ SaveRaises
    \/ Replay
    \/ OracleSkip \/ OracleExternal \/ OracleOwned \/ OracleReused
    \/ Poll \/ PollTimeout
    \/ WaitReturns \/ WaitClear \/ WaitDone
    \/ Record
    \/ Finally
    \/ ExtStart
    \/ EnvHit
    \/ Tick

Spec == Init /\ [][Next]_vars

\* a run with any probe_target and use_browser_login and with no monitor
\* (no attacker URL, or no auto_validate), alone on the host
InitProbe ==
    /\ now = 1
    /\ mon = [m \in MonIds |-> NewMonitor(MONITOR_PORT)]
    /\ thr = [h \in Handlers |-> IdleThread]
    /\ w = IdleWait
    /\ aux = InitAux
    /\ cfg \in {c \in Configs(BOOLEAN) : ~c.monitor_wanted}
    /\ other_busy = {}
    /\ pc = "entry"
    /\ run = InitRun
    /\ attempts = <<>>

NextProbe ==
    \/ GetHandlerRaises \/ Enter
    \/ SetupNoMonitor
    \/ GenStart
    \/ SampleSkipped \/ SampleReturns \/ SampleRaises
    \/ LoopNext \/ LoopEnd
    \/ LLMReturns \/ LLMRaises
    \/ PostProcess \/ SaveRaises
    \/ Replay
    \/ OracleSkip
    \/ Record
    \/ Finally
    \/ Tick

SpecProbe == InitProbe /\ [][NextProbe]_vars

\* after AttackerMonitor(url).start() has bound its port (lines 76, 86-89)
InitMonitor ==
    /\ now = 1
    /\ other_busy = {}
    /\ mon = [m \in MonIds |->
                IF m = "run" THEN [NewMonitor(MONITOR_PORT) EXCEPT !.server = TRUE]
                ELSE NewMonitor(MONITOR_PORT)]
    /\ thr = [h \in Handlers |-> IdleThread]
    /\ w = IdleWait
    /\ aux = InitAux
    /\ cfg = NoCfg
    /\ pc = "monitor"
    /\ run = InitRun
    /\ attempts = <<>>

\* the listener under arbitrary inbound traffic
NextMonitor ==
    \/ \E h \in Handlers : EnvRequest(h)
    \/ \E h \in Handlers : HandlerStep(h)
    \/ Tick

SpecMonitor == InitMonitor /\ [][NextMonitor]_vars

\* the listener, a waiter on it, callbacks and polls of other runs
NextWait ==
    \/ \E h \in Handlers : EnvCallback(h)
    \/ \E h \in Handlers : HandlerStep(h)
    \/ DriverCallsWait
    \/ WaitReturns
    \/ WaitClear
    \/ DriverTakesResult
    \/ Tick

SpecWait == InitMonitor /\ [][NextWait]_vars

\* ------------------------------------------------- the remote validators
\* validate_http_requests (command_injection/http/remote_validator.py) and
\* validate_socket_events (command_injection/socket/remote_validator.py),
\* each studied on its own: `run` holds the locals of the call, `pc` its
\* position.  A message is what the validator can tell of it: whether
\* _resolve_url finds a URL for it.  What the target does with a message
\* is drawn when the message is sent.
Messages == [resolvable : BOOLEAN]

\* what sending one message ends in: a response with a status, or an
\* exception of the transport (timeout, connection refused, TLS failure)
SendOutcomes(variant) ==
    IF variant = "http" THEN {"status_200", "status_500", "exception"}
    ELSE {"response", "exception"}

StatusCode(outcome) == IF outcome = "status_200" THEN 200 ELSE 500

\* str(exc) of the exception of the transport, of _resolve_url
TransportText == "transport error"
ResolveText == "Socket event is missing a resolvable URL"

\* core/models.py 113-120, the fields the validators set
ValidationResult(request_index, status_code, success, error) ==
    [request_index |-> request_index, status_code |-> status_code,
     success |-> success, error |-> error]

\* http/remote_validator.py 50-76: the result for message idx
HttpResult(idx, outcome) ==
    IF outcome = "exception"
    THEN ValidationResult(idx, NoneVal, FALSE, Some(TransportText))
    ELSE ValidationResult(idx, Some(StatusCode(outcome)), StatusCode(outcome) < 500, NoneVal)

\* socket/remote_validator.py 44-53 (no URL), 87-105 (sent, or the send raised)
SocketResult(idx, resolvable, outcome) ==
    IF ~resolvable THEN ValidationResult(idx, NoneVal, FALSE, Some(ResolveText))
    ELSE IF outcome = "exception"
         THEN ValidationResult(idx, NoneVal, FALSE, Some(TransportText))
         ELSE ValidationResult(idx, NoneVal, TRUE, NoneVal)

\* the locals of a call: the argument, the loop index (enumerate counts
\* from 0), the results, and the sends there have been (index and outcome)
ValidatorFrame(requests) ==
    [requests |-> requests, idx |-> 0, results |-> <<>>, sent |-> <<>>]

InitValidate ==
    /\ now = 1
    /\ other_busy = {}
    /\ mon = [m \in MonIds |-> NewMonitor(MONITOR_PORT)]
    /\ thr = [h \in Handlers |-> IdleThread]
    /\ w = IdleWait
    /\ aux = InitAux
    /\ \E variant \in {"http", "socket"} : cfg = [NoCfg EXCEPT !.variant = variant]
    /\ pc = "v_loop"
    /\ \E n \in 0..MaxMsgs : \E requests \in [1..n -> Messages] :
          run = ValidatorFrame(requests)
    /\ attempts = <<>>

MutStopAtException ==
    /\ pc = "v_loop"
    /\ run.idx < Len(run.requests)
    /\ LET message == run.requests[run.idx + 1]
       IN /\ cfg.variant = "http" => message.resolvable
          /\ \E outcome \in SendOutcomes(cfg.variant) :
                LET result == IF cfg.variant = "http" THEN HttpResult(run.idx, outcome)
                              ELSE SocketResult(run.idx, message.resolvable, outcome)
                IN run' = [run EXCEPT
                              !.results = Append(@, result),
                              !.sent = IF message.resolvable
                                       THEN Append(@, <<run.idx, outcome>>) ELSE @,
                              !.idx = IF result.success THEN @ + 1 ELSE Len(run.requests)]
    /\ pc' = "v_loop"
    /\ UNCHANGED <<cfg, attempts>>
    /\ UNCHANGED monVars

\* one iteration of `for idx, message in enumerate(...)`: http 47-76,
\* socket 41-105
ValidateOne ==
    /\ pc = "v_loop"
    /\ run.idx < Len(run.requests)
    /\ LET message == run.requests[run.idx + 1]
       IN /\ cfg.variant = "http" => message.resolvable
          /\ \E outcome \in SendOutcomes(cfg.variant) :
                LET result == IF cfg.variant = "http" THEN HttpResult(run.idx, outcome)
                              ELSE SocketResult(run.idx, message.resolvable, outcome)
                IN run' = [run EXCEPT
                              !.results = Append(@, result),
                              !.sent = IF message.resolvable
                                       THEN Append(@, <<run.idx, outcome>>) ELSE @,
                              !.idx = @ + 1]
    /\ pc' = "v_loop"
    /\ UNCHANGED <<cfg, attempts>>
    /\ UNCHANGED monVars

\* http/remote_validator.py 48: _resolve_url is called outside the inner
\* try, so what urljoin raises leaves validate_http_requests
ValidateRaises ==
    /\ pc = "v_loop"
    /\ run.idx < Len(run.requests)
    /\ cfg.variant = "http"
    /\ ~run.requests[run.idx + 1].resolvable
    /\ pc' = "v_raised"
    /\ UNCHANGED <<cfg, run, attempts>>
    /\ UNCHANGED monVars

\* `return results`: http 81, socket 106
ValidateReturns ==
    /\ pc = "v_loop"
    /\ run.idx >= Len(run.requests)
    /\ pc' = "v_returned"
    /\ UNCHANGED <<cfg, run, attempts>>
    /\ UNCHANGED monVars

NextValidate == ValidateOne \/ ValidateRaises \/ ValidateReturns

SpecValidate == InitValidate /\ [][NextValidate]_vars

\* ------------------------------------------------ parsing the model's reply
\* A raw HTTP block is the sequence of its lines, a line the sequence of
\* its white-space separated tokens (a colon is a token of its own); a raw
\* Socket.IO block is the JSON text it is.
ReqLine == <<"POST", "/cgi", "HTTP/1.1">>
ReqLineLower == <<"POST", "/cgi", "http/1.1">>
ReqLineOld == <<"POST", "/cgi", "HTTP/0.9">>
ShortLine == <<"POST", "/cgi">>
HostLine == <<"Host", ":", "target">>
LengthLine == <<"Content-Length", ":", "5">>
BlankLine == <<>>
BodyLine == <<"cmd=x">>
LongLine == <<"POST", "/cgi", "x", "HTTP/1.1">>
HttpLines == {ReqLine, ReqLineLower, ReqLineOld, ShortLine, LongLine, HostLine,
              LengthLine, BlankLine, BodyLine}

\* postprocess.py 21, 44: a block is stripped, so it neither is empty nor
\* begins or ends with a blank line
RawHttp ==
    {raw \in UNION {[1..n -> HttpLines] : n \in 1..MaxLines} :
        raw[1] # BlankLine /\ raw[Len(raw)] # BlankLine}

\* the request of tests/test_http_parsing.py 8-15
TestReqLine == <<"POST", "/do.cgi", "HTTP/1.1">>
TestHostLine == <<"Host", ":", "TARGET">>
TypeLine == <<"Content-Type", ":", "application/x-www-form-urlencoded">>
Length10Line == <<"Content-Length", ":", "10">>
TestBodyLine == <<"cmd=ls", "-la">>
RAW == <<TestReqLine, TestHostLine, TypeLine, Length10Line, BlankLine, TestBodyLine>>

\* a Content-Length header without a value, and one whose value is no number
LengthEmptyLine == <<"Content-Length", ":">>
LengthBadLine == <<"Content-Length", ":", "ten">>

\* the request of the test and its variations: another version, no Host
\* header, the Content-Length header absent or of another value, no body
RawTests ==
    {<<req>> \o host \o <<TypeLine>> \o length \o body :
        req \in {TestReqLine, ReqLineOld},
        host \in {<<>>, <<TestHostLine>>},
        length \in {<<>>, <<Length10Line>>, <<LengthLine>>, <<LengthEmptyLine>>,
                    <<LengthBadLine>>},
        body \in {<<>>, <<BlankLine, TestBodyLine>>}}

JsonObjects ==
    [json : {"object"},
     url : {NoneVal, Some("ws://target/socket.io"), Some("ftp://target")},
     path : {NoneVal, Some("/socket.io")},
     frame : {NoneVal, Some("42[1]"), Some("2probe")},
     event : {NoneVal, Some("run")},
     payload : {NoneVal, Some("cmd")},
     headers : {"absent", "object", "array"},
     max_response_frames : {"absent", "1", "-1", "x"}]

\* text that is no JSON, and JSON that is no object
JsonOther(kind) ==
    [json |-> kind, url |-> NoneVal, path |-> NoneVal, frame |-> NoneVal,
     event |-> NoneVal, payload |-> NoneVal, headers |-> "absent",
     max_response_frames |-> "absent"]

RawSocket == JsonObjects \cup {JsonOther("text"), JsonOther("array")}

\* an exception leaving a function, a value returned by it
Raise(text) == [raised |-> TRUE, error |-> text]
Return(value) == [raised |-> FALSE, value |-> value]

\* core/models.py 8-14
HTTPMessage(method, path, version, headers, body) ==
    [method |-> method, path |-> path, version |-> version,
     headers |-> headers, body |-> body]

HasColon(line) == \E i \in 1..Len(line) : line[i] = ":"

FirstColon(line) ==
    CHOOSE i \in 1..Len(line) : line[i] = ":" /\ \A j \in 1..(i - 1) : line[j] # ":"

\* the index of the line that ends the headers, models.py 29-33
HeaderEnd(lines) ==
    LET blanks == {i \in 2..Len(lines) : lines[i] = BlankLine}
    IN IF blanks = {} THEN Len(lines) + 1
       ELSE CHOOSE i \in blanks : \A j \in blanks : i <= j

\* models.py 27-38: the dict of the header lines, a later line replacing
\* an earlier one of the same name
HeadersOf(lines) ==
    LET idxs == {i \in 2..(HeaderEnd(lines) - 1) : HasColon(lines[i])}
        key(i) == SubSeq(lines[i], 1, FirstColon(lines[i]) - 1)
        val(i) == SubSeq(lines[i], FirstColon(lines[i]) + 1, Len(lines[i]))
        last(k) == CHOOSE i \in idxs : key(i) = k /\ \A j \in idxs : key(j) = k => j <= i
    IN [k \in {key(i) : i \in idxs} |-> val(last(k))]

\* HTTPMessage.parse with the body taken from the blank line on
MutBodyFromBlank(raw) ==
    IF Len(raw) = 0 THEN Raise("Empty HTTP message")
    ELSE IF Len(raw[1]) < 3 THEN Raise("Invalid request line")
    ELSE Return(HTTPMessage(raw[1][1], raw[1][2], raw[1][3], HeadersOf(raw),
                            SubSeq(raw, HeaderEnd(raw), Len(raw))))

\* HTTPMessage.parse, models.py 16-40
HttpParse(raw) ==
    IF Len(raw) = 0 THEN Raise("Empty HTTP message")
    ELSE IF Len(raw[1]) < 3 THEN Raise("Invalid request line")
    ELSE Return(HTTPMessage(raw[1][1], raw[1][2], raw[1][3], HeadersOf(raw),
                            SubSeq(raw, HeaderEnd(raw) + 1, Len(raw))))

\* str.upper() on the versions of the model
Upper(version) == IF version = "http/1.1" THEN "HTTP/1.1" ELSE version

\* int() of a header value: the number, or NoneVal where int() raises
IntOf(value) ==
    CASE value = <<"5">> -> Some(5)
      [] value = <<"10">> -> Some(10)
      [] OTHER -> NoneVal

RECURSIVE LineBytes(_)
LineBytes(line) ==
    IF Len(line) = 0 THEN 0
    ELSE Len(line[1]) + (IF Len(line) > 1 THEN 1 ELSE 0) + LineBytes(Tail(line))

\* len(body.encode("utf-8")), the lines of the body joined by "\n"
RECURSIVE BodyBytes(_)
BodyBytes(body) ==
    IF Len(body) = 0 THEN 0
    ELSE LineBytes(body[1]) + (IF Len(body) > 1 THEN 1 ELSE 0) + BodyBytes(Tail(body))

\* validate_http_message without the check of the declared length
MutNoLengthCheck(msg) ==
    If(Upper(msg.version) \notin {"HTTP/1.0", "HTTP/1.1", "HTTP/2", "HTTP/2.0"},
       "Unsupported HTTP version")
    \o If(msg.method = "" \/ msg.path = "", "Missing method or path")
    \o If(<<"Host">> \notin DOMAIN msg.headers, "Missing Host header")

\* validate_http_message, validators.py 8-25
validate_http_message(msg) ==
    LET length == <<"Content-Length">>
    IN If(Upper(msg.version) \notin {"HTTP/1.0", "HTTP/1.1", "HTTP/2", "HTTP/2.0"},
          "Unsupported HTTP version")
       \o If(msg.method = "" \/ msg.path = "", "Missing method or path")
       \o If(<<"Host">> \notin DOMAIN msg.headers, "Missing Host header")
       \o (IF length \notin DOMAIN msg.headers THEN <<>>
           ELSE LET declared == IF msg.headers[length] = <<>> THEN Some(0)
                                ELSE IntOf(msg.headers[length])
                IN IF declared = NoneVal THEN <<"Invalid Content-Length header">>
                   ELSE If(declared[1] # BodyBytes(msg.body), "Content-Length mismatch"))

\* core/models.py 43-54
SocketEventMessage(url, path, event, payload, raw_frame, max_response_frames) ==
    [url |-> url, path |-> path, event |-> event, payload |-> payload,
     raw_frame |-> raw_frame, max_response_frames |-> max_response_frames]

\* `str(x or "")` of an optional string
StrOrEmpty(x) == IF x = NoneVal THEN "" ELSE x[1]

\* `int(data.get("max_response_frames") or 1)`, models.py 83
FramesOf(text) ==
    CASE text = "absent" -> Some(1)
      [] text = "1" -> Some(1)
      [] text = "-1" -> Some(0 - 1)
      [] OTHER -> NoneVal

\* SocketEventMessage.parse, models.py 56-95
SocketParse(raw) ==
    LET url == StrOrEmpty(raw.url)
        path == StrOrEmpty(raw.path)
        event == IF raw.frame = NoneVal THEN Some(StrOrEmpty(raw.event)) ELSE NoneVal
    IN IF raw.json = "text" THEN Raise("JSONDecodeError")
       ELSE IF raw.json # "object" THEN Raise("Socket event payload must be a JSON object")
       ELSE IF url = "" /\ path = "" THEN Raise("Missing socket URL or path")
       ELSE IF raw.frame = NoneVal /\ event = Some("")
            THEN Raise("Missing socket event name or frame")
       ELSE IF raw.headers = "array" THEN Raise("headers must be an object")
       ELSE IF FramesOf(raw.max_response_frames) = NoneVal
            THEN Raise("invalid literal for int()")
       ELSE Return(SocketEventMessage(url, IF path = "" THEN NoneVal ELSE Some(path),
                                      event, raw.payload, raw.frame,
                                      FramesOf(raw.max_response_frames)[1]))

\* urlparse(url).scheme on the URLs of the model
Scheme(url) == IF url = "ws://target/socket.io" THEN "ws" ELSE "ftp"

\* raw_frame.strip().startswith("42") on the frames of the model
StartsWith42(frame) == frame = "42[1]"

\* validate_socket_event, socket/validators.py 9-27
validate_socket_event(message) ==
    If(message.url # "" /\ Scheme(message.url) \notin {"ws", "wss", "http", "https"},
       "Socket URL should start with ws:// or wss://")
    \o If(message.url = "" /\ message.path = NoneVal, "Missing socket URL or path")
    \o (IF message.raw_frame # NoneVal
        THEN If(~StartsWith42(message.raw_frame[1]), "Socket frame must start with '42'")
        ELSE If(message.event \in {NoneVal, Some("")}, "Missing event name")
             \o If(message.payload = NoneVal, "Missing payload field"))
    \o If(message.max_response_frames < 1, "max_response_frames must be >= 1")

\* parse_and_validate: core/validators.py 28-30 for an HTTP block,
\* socket/validators.py 30-32 for a Socket.IO block; the value returned is
\* the pair (message, warnings)
parse_and_validate(variant, raw) ==
    LET parsed == IF variant = "http" THEN HttpParse(raw) ELSE SocketParse(raw)
    IN IF parsed.raised THEN parsed
       ELSE Return(<<parsed.value,
                     IF variant = "http" THEN validate_http_message(parsed.value)
                     ELSE validate_socket_event(parsed.value)>>)

\* generator.py 235, postprocess.py 54
Placeholder(raw) == HTTPMessage("", "", "", <<>>, raw)

\* a parse issue: the index of its block, whether it is a warning of the
\* validator or the text of an exception, and the text
ParseIssue(idx, kind, text) == <<idx, kind, text>>

Issues(idx, errs) == [i \in 1..Len(errs) |-> ParseIssue(idx, "warning", errs[i])]

\* the blocks the loops are run on: one that parses without a warning, one
\* that parses with warnings, one that does not parse
Samples(variant) ==
    IF variant = "http"
    THEN {<<ReqLine, HostLine, BlankLine, BodyLine>>, <<ReqLineOld, BodyLine>>, <<ShortLine>>}
    ELSE {[JsonOther("object") EXCEPT !.url = Some("ws://target/socket.io"),
                                       !.frame = Some("42[1]")],
          [JsonOther("object") EXCEPT !.path = Some("/socket.io"), !.event = Some("run")],
          JsonOther("text")}

\* the locals of the parse loop: the blocks, the loop index (from 0), the
\* messages and the issues, and what parse_and_validate did on each block
ParseFrame(raw_messages) ==
    [raw_messages |-> raw_messages, idx |-> 0, requests |-> <<>>, parse_issues |-> <<>>,
     calls |-> <<>>]

\* generator.py 224, socket_command_injection.py 224: the loop is entered
\* with the blocks of the splitter: one block of any content, or up to
\* MaxBlocks of the samples
InitParse ==
    /\ now = 1
    /\ other_busy = {}
    /\ mon = [m \in MonIds |-> NewMonitor(MONITOR_PORT)]
    /\ thr = [h \in Handlers |-> IdleThread]
    /\ w = IdleWait
    /\ aux = InitAux
    /\ \E variant \in {"http", "socket"} : cfg = [NoCfg EXCEPT !.variant = variant]
    /\ pc = "p_loop"
    /\ \/ \E raw \in (IF cfg.variant = "http" THEN RawHttp \cup RawTests ELSE RawSocket) :
             run = ParseFrame(<<raw>>)
       \/ \E n \in 0..MaxBlocks : \E raw_messages \in [1..n -> Samples(cfg.variant)] :
             run = ParseFrame(raw_messages)
    /\ attempts = <<>>

\* one iteration of the parse loop: generator.py 226-235,
\* socket_command_injection.py 226-232
ParseOne ==
    /\ pc = "p_loop"
    /\ run.idx < Len(run.raw_messages)
    /\ LET raw == run.raw_messages[run.idx + 1]
           out == parse_and_validate(cfg.variant, raw)
           r1 == [run EXCEPT !.idx = @ + 1, !.calls = Append(@, out)]
       IN run' = IF ~out.raised
                 THEN [r1 EXCEPT !.requests = Append(@, out.value[1]),
                                 !.parse_issues = @ \o Issues(run.idx, out.value[2])]
                 ELSE IF cfg.variant = "http"
                 THEN [r1 EXCEPT !.requests = Append(@, Placeholder(raw)),
                                 !.parse_issues =
                                     Append(@, ParseIssue(run.idx, "parse error", out.error))]
                 ELSE [r1 EXCEPT !.parse_issues =
                                     Append(@, ParseIssue(run.idx, "parse error", out.error))]
    /\ pc' = "p_loop"
    /\ UNCHANGED <<cfg, attempts>>
    /\ UNCHANGED monVars

\* the loop is exhausted: generator.py 237, socket_command_injection.py 234
ParseDone ==
    /\ pc = "p_loop"
    /\ run.idx >= Len(run.raw_messages)
    /\ pc' = "p_done"
    /\ UNCHANGED <<cfg, run, attempts>>
    /\ UNCHANGED monVars

NextParse == ParseOne \/ ParseDone

SpecParse == InitParse /\ [][NextParse]_vars

\* ------------------------------------------- the feedback of an attempt
\* _build_attempt_feedback, generator.py 337-404, as the function it is.
\* The text is the sequence of its sections (joined by a blank line), a
\* section a heading and its items.  A response preview is known by what
\* it shows, the number of its characters and the white space around them.
PREVIEW_CUT == 200

Preview(text, chars, pad) == [text |-> text, chars |-> chars, pad |-> pad]

Previews ==
    {Preview("", 0, 0), Preview("", 0, 1), Preview("Forbidden", 9, 0),
     Preview("page", PREVIEW_CUT, 1), Preview("page", PREVIEW_CUT + 1, 0)}

\* core/models.py 113-120
FullResult(request_index, url, status_code, success, response_preview, error) ==
    [request_index |-> request_index, url |-> url, status_code |-> status_code,
     success |-> success, response_preview |-> response_preview, error |-> error]

\* the results the builder is run on: that of tests/test_generator_feedback.py
\* 16-25, successes with a long preview, with a preview of just the length
\* of the cut and with nothing to show, and failures with and without an
\* error text
ResultSamples ==
    {FullResult(1, "http://target/login", Some(403), FALSE, Preview("Forbidden", 9, 0), NoneVal),
     FullResult(0, "http://target/cgi", Some(200), TRUE, Preview("page", PREVIEW_CUT + 1, 0), NoneVal),
     FullResult(1, "http://target/cgi", Some(200), TRUE, Preview("page", PREVIEW_CUT, 1), Some("")),
     FullResult(2, "http://target/cgi", Some(204), TRUE, Preview("", 0, 0), NoneVal),
     FullResult(2, "", NoneVal, FALSE, Preview("", 0, 0), Some("timed out")),
     FullResult(0, "http://target/cgi", NoneVal, FALSE, Preview("", 0, 1), NoneVal)}

IssueSamples ==
    {<<>>, <<"Request #0: Content-Length mismatch">>,
     <<"Request #0: Content-Length mismatch", "Request #1 parse error: Invalid request line">>}

AttackerUrls == {"http://attacker/payload", "http://10.0.0.2:6666/x"}

Section(head, items) == [head |-> head, items |-> items]

Part(kind, text, chars, ellipsis) ==
    [kind |-> kind, text |-> text, chars |-> chars, ellipsis |-> ellipsis]

\* `preview[:200] + ("..." if len(preview) > 200 else "")` without the cut
MutUncut(preview) ==
    Part("body", preview.text, preview.chars, FALSE)

\* lines 355-357, 362: the preview is stripped, cut to 200 characters and
\* marked with an ellipsis when it was longer
Cut(preview) ==
    Part("body", preview.text,
         IF preview.chars > PREVIEW_CUT THEN PREVIEW_CUT ELSE preview.chars,
         preview.chars > PREVIEW_CUT)

\* lines 353-374: the summary line of one result
SummaryLine(res) ==
    LET status == IF res.status_code # NoneVal THEN <<"HTTP", res.status_code[1]>>
                  ELSE <<"no status">>
        url == IF res.url # "" THEN res.url ELSE "<no url>"
        detail_parts ==
            (IF Truthy(res.error) THEN <<Part("error", res.error[1], Len(res.error[1]), FALSE)>>
             ELSE <<>>)
            \o (IF res.response_preview.chars > 0 THEN <<Cut(res.response_preview)>> ELSE <<>>)
        detail == IF ~res.success /\ detail_parts = <<>>
                  THEN <<Part("no response", "", 0, FALSE)>>
                  ELSE detail_parts
    IN [index |-> res.request_index,
        outcome |-> IF res.success THEN "success" ELSE "failure",
        status |-> status, url |-> url, detail |-> detail]

\* the notice without the URL of the attacker
MutNoticeNoUrl(monitor_active, attacker_url) ==
    Section(OracleNotice(monitor_active), <<>>)

\* lines 384-393: the notice on the oracle with `wget {attacker_url}`
NoticeSection(monitor_active, attacker_url) ==
    Section(OracleNotice(monitor_active), <<<<"wget", attacker_url>>>>)

\* the locals of a call of _build_attempt_feedback
FeedbackFrame(parse_issues, validation_results, attacker_url, monitor_active, validation_error) ==
    [parse_issues |-> parse_issues, validation_results |-> validation_results,
     attacker_url |-> attacker_url, monitor_active |-> monitor_active,
     validation_error |-> validation_error,
     messages |-> <<>>, validation_summaries |-> <<>>, failed_validation |-> <<>>,
     idx |-> 0, result |-> NoneVal]

\* the calls: with a list of up to MaxMsgs results, or with no list and
\* perhaps the text of the error that kept the replay from running
InitFeedback ==
    /\ now = 1
    /\ other_busy = {}
    /\ mon = [m \in MonIds |-> NewMonitor(MONITOR_PORT)]
    /\ thr = [h \in Handlers |-> IdleThread]
    /\ w = IdleWait
    /\ aux = InitAux
    /\ cfg = NoCfg
    /\ pc = "f_entry"
    /\ \E parse_issues \in IssueSamples, attacker_url \in AttackerUrls,
          monitor_active \in BOOLEAN :
          \/ \E n \in 0..MaxMsgs : \E results \in [1..n -> ResultSamples] :
                run = FeedbackFrame(parse_issues, Some(results), attacker_url,
                                    monitor_active, NoneVal)
          \/ \E validation_error \in {NoneVal, Some(""), Some("connection refused")} :
                run = FeedbackFrame(parse_issues, NoneVal, attacker_url,
                                    monitor_active, validation_error)
    /\ attempts = <<>>

\* lines 344-347
FeedbackIssues ==
    /\ pc = "f_entry"
    /\ run' = [run EXCEPT !.messages =
                  IF run.parse_issues # <<>>
                  THEN <<Section("Local HTTP parsing/validation issues detected:",
                                 run.parse_issues)>>
                  ELSE <<>>]
    /\ pc' = "f_validation"
    /\ UNCHANGED <<cfg, attempts>>
    /\ UNCHANGED monVars

\* lines 351-374: one iteration of the loop over the results
FeedbackSummarise ==
    /\ pc = "f_validation"
    /\ run.validation_results # NoneVal
    /\ run.idx < Len(run.validation_results[1])
    /\ LET res == run.validation_results[1][run.idx + 1]
       IN run' = [run EXCEPT
                     !.idx = @ + 1,
                     !.failed_validation = IF res.success THEN @ ELSE Append(@, res),
                     !.validation_summaries = Append(@, SummaryLine(res))]
    /\ pc' = "f_validation"
    /\ UNCHANGED <<cfg, attempts>>
    /\ UNCHANGED monVars

\* lines 376-377: the loop is through
FeedbackSummary ==
    /\ pc = "f_validation"
    /\ run.validation_results # NoneVal
    /\ run.idx >= Len(run.validation_results[1])
    /\ run' = [run EXCEPT !.messages =
                  IF run.validation_summaries # <<>>
                  THEN Append(@, Section("Target validation summary:",
                                         run.validation_summaries))
                  ELSE @]
    /\ pc' = "f_notice"
    /\ UNCHANGED <<cfg, attempts>>
    /\ UNCHANGED monVars

\* lines 379-382: there is no list of results
FeedbackNoResults ==
    /\ pc = "f_validation"
    /\ run.validation_results = NoneVal
    /\ run' = [run EXCEPT !.messages =
                  IF Truthy(run.validation_error)
                  THEN Append(@, Section("Target validation did not run due to error:",
                                         <<run.validation_error[1]>>))
                  ELSE Append(@, Section("Target validation did not run or returned no results.",
                                         <<>>))]
    /\ pc' = "f_notice"
    /\ UNCHANGED <<cfg, attempts>>
    /\ UNCHANGED monVars

\* lines 384-404: the notice on the oracle, the advice, and the return
FeedbackReturns ==
    /\ pc = "f_notice"
    /\ LET noticed == Append(run.messages,
                             NoticeSection(run.monitor_active, run.attacker_url))
           messages == IF run.parse_issues # <<>> \/ run.failed_validation # <<>>
                       THEN Append(noticed,
                                   Section("Adjust along four tracks before the next attempt:",
                                           <<>>))
                       ELSE noticed
       IN run' = [run EXCEPT !.messages = messages,
                             !.result = IF messages # <<>> THEN Some(messages) ELSE NoneVal]
    /\ pc' = "f_returned"
    /\ UNCHANGED <<cfg, attempts>>
    /\ UNCHANGED monVars

NextFeedback ==
    \/ FeedbackIssues
    \/ FeedbackSummarise
    \/ FeedbackSummary
    \/ FeedbackNoResults
    \/ FeedbackReturns

SpecFeedback == InitFeedback /\ [][NextFeedback]_vars

\* --------------------------------------------- splitting the model's reply
\* split_messages, core/postprocess.py 12-44 (the same code is
\* command_injection/http/postprocess.py 12-33).  A text is the sequence of
\* its items: a carriage return, a line feed, or the characters of one line
\* (a line of the texts of the model is written as one item, with no blank
\* at either end).  A Content-Length header is an item of its own kind, its
\* number kept as a number.
Cr == [kind |-> "CR", text |-> "", n |-> 0]
Lf == [kind |-> "LF", text |-> "", n |-> 0]
Txt(text) == [kind |-> "text", text |-> text, n |-> 0]
LengthHeader(name, n) == [kind |-> "length", text |-> name, n |-> n]

IsBreak(item) == item.kind \in {"CR", "LF"}

\* the k-th smallest member of a set of numbers
Kth(S, k) == CHOOSE x \in S : Cardinality({y \in S : y < x}) = k - 1

\* the subsequence of seq at the positions in S
Pick(seq, S) == [k \in 1..Cardinality(S) |-> seq[Kth(S, k)]]

\* str.strip of the characters in `kinds`
StripKinds(text, kinds) ==
    LET inner == {i \in 1..Len(text) : text[i].kind \notin kinds}
    IN IF inner = {} THEN <<>>
       ELSE SubSeq(text, Kth(inner, 1), Kth(inner, Cardinality(inner)))

\* `.replace("\r\n", "\n").replace("\r", "\n")`
Norm(text) ==
    LET kept == {i \in 1..Len(text) :
                    ~(text[i].kind = "CR" /\ i < Len(text) /\ text[i + 1].kind = "LF")}
        lfs == [i \in 1..Len(text) |-> IF text[i].kind = "CR" THEN Lf ELSE text[i]]
    IN Pick(lfs, kept)

\* `.split("\n")` of a normalised text
SplitLines(norm) ==
    LET brk == {i \in 1..Len(norm) : norm[i].kind = "LF"}
        from(k) == IF k = 1 THEN 1 ELSE Kth(brk, k - 1) + 1
        to(k) == IF k = Cardinality(brk) + 1 THEN Len(norm) ELSE Kth(brk, k) - 1
    IN [k \in 1..(Cardinality(brk) + 1) |-> SubSeq(norm, from(k), to(k))]

\* `"\n".join(lines)`
RECURSIVE JoinLines(_)
JoinLines(lines) ==
    IF Len(lines) = 0 THEN <<>>
    ELSE IF Len(lines) = 1 THEN lines[1]
    ELSE lines[1] \o <<Lf>> \o JoinLines(Tail(lines))

RequestLines == {"POST /a HTTP/1.1", "GET /b HTTP/1.1"}

\* method_re.match(ln), line 31, on the lines of the model
MethodRe(ln) == Len(ln) = 1 /\ ln[1].kind = "text" /\ ln[1].text \in RequestLines

\* split_messages that cuts at the request lines also when there is one
MutCutAtOne(raw_output) ==
    LET text == StripKinds(raw_output, {"CR", "LF"})
        lines == SplitLines(Norm(text))
        request_line_idxs == {i \in 1..Len(lines) : MethodRe(lines[i])}
        n == Cardinality(request_line_idxs)
        block(k) ==
            StripKinds(JoinLines(SubSeq(lines, Kth(request_line_idxs, k),
                                        IF k < n THEN Kth(request_line_idxs, k + 1) - 1
                                        ELSE Len(lines))),
                       {"LF"})
    IN IF text = <<>> THEN <<>>
       ELSE IF n = 0 THEN <<text>>
       ELSE SelectSeq([k \in 1..n |-> block(k)], LAMBDA b : b # <<>>)

\* split_messages, postprocess.py 12-44
split_messages(raw_output) ==
    LET text == StripKinds(raw_output, {"CR", "LF"})
        lines == SplitLines(Norm(text))
        request_line_idxs == {i \in 1..Len(lines) : MethodRe(lines[i])}
        n == Cardinality(request_line_idxs)
        block(k) ==
            StripKinds(JoinLines(SubSeq(lines, Kth(request_line_idxs, k),
                                        IF k < n THEN Kth(request_line_idxs, k + 1) - 1
                                        ELSE Len(lines))),
                       {"LF"})
    IN IF text = <<>> THEN <<>>
       ELSE IF n <= 1 THEN <<text>>
       ELSE SelectSeq([k \in 1..n |-> block(k)], LAMBDA b : b # <<>>)

\* the items of the replies: line ends, two request lines, a header, and a
\* line of prose
ReplyItems ==
    {Cr, Lf, Txt("POST /a HTTP/1.1"), Txt("GET /b HTTP/1.1"), Txt("Host: t"),
     Txt("Here are the requests:")}

\* the replies of up to MaxItems items, a line written as one item
Replies ==
    {raw \in UNION {[1..n -> ReplyItems] : n \in 0..MaxItems} :
        \A i \in 1..(Len(raw) - 1) : IsBreak(raw[i]) \/ IsBreak(raw[i + 1])}

\* the locals of generator.py 208-209
SplitFrame(raw_output) == [raw_output |-> raw_output, raw_messages |-> NoneVal]

InitSplit ==
    /\ now = 1
    /\ other_busy = {}
    /\ mon = [m \in MonIds |-> NewMonitor(MONITOR_PORT)]
    /\ thr = [h \in Handlers |-> IdleThread]
    /\ w = IdleWait
    /\ aux = InitAux
    /\ cfg = NoCfg
    /\ pc = "s_entry"
    /\ \E raw_output \in Replies : run = SplitFrame(raw_output)
    /\ attempts = <<>>

\* generator.py 209: `raw_messages = split_messages(raw_output)`
SplitCall ==
    /\ pc = "s_entry"
    /\ run' = [run EXCEPT !.raw_messages = Some(split_messages(run.raw_output))]
    /\ pc' = "s_split"
    /\ UNCHANGED <<cfg, attempts>>
    /\ UNCHANGED monVars

NextSplit == SplitCall

SpecSplit == InitSplit /\ [][NextSplit]_vars

\* ---------------------------------------------------- saving the messages
\* save_messages and _adjust_content_length, core/postprocess.py 58-115
\* (the same code is command_injection/http/postprocess.py 37-91), on texts
\* of the items above.

\* the number of decimal digits of a length of the model
Digits(n) == IF n < 10 THEN 1 ELSE 2

\* len(s.encode("utf-8")) of a text of ASCII characters; a Content-Length
\* header is its name, a blank and the digits
ItemBytes(item) ==
    CASE IsBreak(item) -> 1
      [] item.kind = "length" -> Len(item.text) + 1 + Digits(item.n)
      [] OTHER -> Len(item.text)

RECURSIVE TextBytes(_)
TextBytes(text) ==
    IF Len(text) = 0 THEN 0 ELSE ItemBytes(text[1]) + TextBytes(Tail(text))

\* the positions at which `sub` occurs in `text`
Occurrences(text, sub) ==
    {i \in 1..(Len(text) - Len(sub) + 1) : SubSeq(text, i, i + Len(sub) - 1) = sub}

\* `.replace("\n", "\r\n")` of a normalised text
RECURSIVE ToCrLf(_)
ToCrLf(text) ==
    IF Len(text) = 0 THEN <<>>
    ELSE (IF text[1].kind = "LF" THEN <<Cr, Lf>> ELSE <<text[1]>>) \o ToCrLf(Tail(text))

\* `ln.lower().startswith("content-length:")`, line 100
IsLengthLine(ln) == Len(ln) > 0 /\ ln[1].kind = "length"

\* _adjust_content_length, postprocess.py 78-115
adjust_content_length(raw) ==
    LET original == raw
        text == Norm(raw)
        seps == Occurrences(text, <<Lf, Lf>>)
        cut == Kth(seps, 1)
        head == IF seps # {} THEN SubSeq(text, 1, cut - 1) ELSE text
        body == IF seps # {} THEN SubSeq(text, cut + 2, Len(text)) ELSE <<>>
        body_len == TextBytes(body)
        lines == IF head # <<>> THEN SplitLines(head) ELSE <<>>
        found == {idx \in 1..Len(lines) : IsLengthLine(lines[idx])}
        header == <<LengthHeader("Content-Length:", body_len)>>
        fixed == IF found # {} THEN [lines EXCEPT ![Kth(found, 1)] = header]
                 ELSE IF body # <<>> THEN Append(lines, header)
                 ELSE lines
        new_head == JoinLines(fixed)
        rebuilt == IF body # <<>> \/ Occurrences(original, <<Lf, Lf>>) # {}
                   THEN new_head \o <<Lf, Lf>> \o body
                   ELSE new_head
    IN IF Occurrences(original, <<Cr, Lf>>) # {} THEN ToCrLf(rebuilt) ELSE rebuilt

LineEnds == {<<Cr, Lf>>, <<Lf>>, <<Cr>>}

\* the messages that are saved: a request line, perhaps a Content-Length
\* header of either spelling, perhaps a blank line and a body of one or two
\* lines, each line ended in any of the three ways
SavedTexts ==
    LET heads == {<<Txt("POST /a HTTP/1.1")>>}
                 \cup {<<Txt("POST /a HTTP/1.1")>> \o e \o <<h>> :
                          e \in LineEnds,
                          h \in {LengthHeader("Content-Length:", 3),
                                 LengthHeader("content-length:", 12)}}
        bodies == {<<>>, <<Txt("a=1")>>}
                  \cup {<<Txt("a=1")>> \o e \o <<Txt("b=2")>> : e \in LineEnds}
        tails == {<<>>} \cup {e1 \o e2 \o b : e1 \in LineEnds, e2 \in LineEnds, b \in bodies}
    IN {h \o t : h \in heads, t \in tails}

\* the locals of save_messages: the messages, the loop index, and what was
\* written to the files
SaveFrame(raw_messages) == [raw_messages |-> raw_messages, idx |-> 0, written |-> <<>>]

InitSave ==
    /\ now = 1
    /\ other_busy = {}
    /\ mon = [m \in MonIds |-> NewMonitor(MONITOR_PORT)]
    /\ thr = [h \in Handlers |-> IdleThread]
    /\ w = IdleWait
    /\ aux = InitAux
    /\ cfg = NoCfg
    /\ pc = "w_loop"
    /\ \E raw \in SavedTexts : run = SaveFrame(<<raw>>)
    /\ attempts = <<>>

\* one iteration of the loop of save_messages, lines 62-74
SaveOne ==
    /\ pc = "w_loop"
    /\ run.idx < Len(run.raw_messages)
    /\ LET normalized == adjust_content_length(run.raw_messages[run.idx + 1])
       IN run' = [run EXCEPT !.idx = @ + 1, !.written = Append(@, normalized)]
    /\ pc' = "w_loop"
    /\ UNCHANGED <<cfg, attempts>>
    /\ UNCHANGED monVars

\* line 75
SaveReturns ==
    /\ pc = "w_loop"
    /\ run.idx >= Len(run.raw_messages)
    /\ pc' = "w_returned"
    /\ UNCHANGED <<cfg, run, attempts>>
    /\ UNCHANGED monVars

NextSave == SaveOne \/ SaveReturns

SpecSave == InitSave /\ [][NextSave]_vars

\* _adjust_content_length applied to a text, and once more to what it
\* returned
AdjustFrame(raw) == [raw |-> raw, outputs |-> <<>>]

InitAdjust ==
    /\ now = 1
    /\ other_busy = {}
    /\ mon = [m \in MonIds |-> NewMonitor(MONITOR_PORT)]
    /\ thr = [h \in Handlers |-> IdleThread]
    /\ w = IdleWait
    /\ aux = InitAux
    /\ cfg = NoCfg
    /\ pc = "a_entry"
    /\ \E raw \in SavedTexts : run = AdjustFrame(raw)
    /\ attempts = <<>>

\* postprocess.py 78-115 on the text
AdjustFirst ==
    /\ pc = "a_entry"
    /\ run' = [run EXCEPT !.outputs = <<adjust_content_length(run.raw)>>]
    /\ pc' = "a_once"
    /\ UNCHANGED <<cfg, attempts>>
    /\ UNCHANGED monVars

\* postprocess.py 78-115 on its own output
AdjustAgain ==
    /\ pc = "a_once"
    /\ run' = [run EXCEPT !.outputs = Append(@, adjust_content_length(run.outputs[1]))]
    /\ pc' = "a_twice"
    /\ UNCHANGED <<cfg, attempts>>
    /\ UNCHANGED monVars

NextAdjust == AdjustFirst \/ AdjustAgain

SpecAdjust == InitAdjust /\ [][NextAdjust]_vars

\* ------------------------------------- splitting a Socket.IO reply
\* split_socket_messages, command_injection/socket/postprocess.py 13-38.
\* The text is the sequence of its pieces: white space, a JSON value that
\* raw_decode decodes, or characters that it does not decode.
JsonPieces == {"{1}", "[2]"}
SocketPieces == {" ", "x"} \cup JsonPieces

\* str.strip() of a text of pieces
StripSpace(text) ==
    LET inner == {i \in 1..Len(text) : text[i] # " "}
    IN IF inner = {} THEN <<>>
       ELSE SubSeq(text, Kth(inner, 1), Kth(inner, Cardinality(inner)))

\* a block: the json.dumps of a decoded value, or text as it was written
Dumped(piece) == [json |-> TRUE, text |-> <<piece>>]
Verbatim(text) == [json |-> FALSE, text |-> text]

\* the locals of split_socket_messages; idx counts the pieces gone through
SocketSplitFrame(raw_output) ==
    [raw_output |-> raw_output, text |-> StripSpace(raw_output), idx |-> 0, blocks |-> <<>>]

InitSocketSplit ==
    /\ now = 1
    /\ other_busy = {}
    /\ mon = [m \in MonIds |-> NewMonitor(MONITOR_PORT)]
    /\ thr = [h \in Handlers |-> IdleThread]
    /\ w = IdleWait
    /\ aux = InitAux
    /\ cfg = [NoCfg EXCEPT !.variant = "socket"]
    /\ pc = "j_entry"
    /\ \E n \in 0..MaxItems : \E raw_output \in [1..n -> SocketPieces] :
          run = SocketSplitFrame(raw_output)
    /\ attempts = <<>>

\* lines 14-16: nothing but white space
SocketSplitEmpty ==
    /\ pc = "j_entry"
    /\ run.text = <<>>
    /\ pc' = "j_returned"
    /\ UNCHANGED <<cfg, run, attempts>>
    /\ UNCHANGED monVars

\* lines 18-20
SocketSplitBegin ==
    /\ pc = "j_entry"
    /\ run.text # <<>>
    /\ pc' = "j_loop"
    /\ UNCHANGED <<cfg, run, attempts>>
    /\ UNCHANGED monVars

\* lines 22-23: white space is passed over
SocketSplitSkip ==
    /\ pc = "j_loop"
    /\ run.idx < Len(run.text)
    /\ run.text[run.idx + 1] = " "
    /\ run' = [run EXCEPT !.idx = @ + 1]
    /\ pc' = "j_loop"
    /\ UNCHANGED <<cfg, attempts>>
    /\ UNCHANGED monVars

\* lines 26-27, 33-35: raw_decode returns a value
SocketSplitDecode ==
    /\ pc = "j_loop"
    /\ run.idx < Len(run.text)
    /\ run.text[run.idx + 1] \in JsonPieces
    /\ run' = [run EXCEPT !.idx = @ + 1,
                          !.blocks = Append(@, Dumped(run.text[run.idx + 1]))]
    /\ pc' = "j_loop"
    /\ UNCHANGED <<cfg, attempts>>
    /\ UNCHANGED monVars

\* the rest kept as a block whatever was decoded before it
MutAlwaysFallback ==
    /\ pc = "j_loop"
    /\ run.idx < Len(run.text)
    /\ run.text[run.idx + 1] \notin JsonPieces \cup {" "}
    /\ run' = [run EXCEPT !.blocks =
                  Append(@, Verbatim(StripSpace(SubSeq(run.text, run.idx + 1,
                                                       Len(run.text)))))]
    /\ pc' = "j_after"
    /\ UNCHANGED <<cfg, attempts>>
    /\ UNCHANGED monVars

\* lines 28-32: raw_decode raises JSONDecodeError; the rest of the text is
\* a block if there is none yet, and the loop is left
SocketSplitFails ==
    /\ pc = "j_loop"
    /\ run.idx < Len(run.text)
    /\ run.text[run.idx + 1] \notin JsonPieces \cup {" "}
    /\ run' = [run EXCEPT !.blocks =
                  IF @ = <<>>
                  THEN <<Verbatim(StripSpace(SubSeq(run.text, run.idx + 1,
                                                    Len(run.text))))>>
                  ELSE @]
    /\ pc' = "j_after"
    /\ UNCHANGED <<cfg, attempts>>
    /\ UNCHANGED monVars

\* lines 21, 24-25: the text is through
SocketSplitEnd ==
    /\ pc = "j_loop"
    /\ run.idx >= Len(run.text)
    /\ pc' = "j_after"
    /\ UNCHANGED <<cfg, run, attempts>>
    /\ UNCHANGED monVars

\* lines 36-38
SocketSplitReturns ==
    /\ pc = "j_after"
    /\ run' = [run EXCEPT !.blocks = IF @ = <<>> THEN <<Verbatim(run.text)>> ELSE @]
    /\ pc' = "j_returned"
    /\ UNCHANGED <<cfg, attempts>>
    /\ UNCHANGED monVars

NextSocketSplit ==
    \/ SocketSplitEmpty
    \/ SocketSplitBegin
    \/ SocketSplitSkip
    \/ SocketSplitDecode
    \/ SocketSplitFails
    \/ SocketSplitEnd
    \/ SocketSplitReturns

SpecSocketSplit == InitSocketSplit /\ [][NextSocketSplit]_vars

\* ------------------------------------------------ the Socket.IO sender
\* SocketIOSender.send_event and send_frame, socket_sender.py 109-213: the
\* two differ in the frame they send after the handshake.  `ops` is the
\* record of what was done on the connection, in order.
RecvOutcomes == {"frame", "timeout", "closed"}

\* namespace.lstrip('/') on the namespaces of the model
Lstrip(namespace) == IF namespace = "/chat" THEN "chat" ELSE namespace

\* _build_handshake_frame, lines 93-96
HandshakeFrame(namespace) ==
    IF namespace # "" THEN <<"40", Lstrip(namespace)>> ELSE <<"40">>

\* _build_event_frame, lines 98-101, and the raw frame of send_frame
MainFrame(method, namespace) ==
    IF method = "send_frame" THEN <<"raw">>
    ELSE IF namespace # "" THEN <<"42", Lstrip(namespace)>> ELSE <<"42">>

\* the locals of a call
SendFrame(method, namespace, wait_for_response, max_response_frames) ==
    [method |-> method, namespace |-> namespace,
     wait_for_response |-> wait_for_response,
     max_response_frames |-> max_response_frames,
     ops |-> <<>>, handshake |-> NoneVal, ready |-> NoneVal, responses |-> 0,
     frames |-> 0, ended |-> "", exc |-> ""]

InitSend ==
    /\ now = 1
    /\ other_busy = {}
    /\ mon = [m \in MonIds |-> NewMonitor(MONITOR_PORT)]
    /\ thr = [h \in Handlers |-> IdleThread]
    /\ w = IdleWait
    /\ aux = InitAux
    /\ cfg = [NoCfg EXCEPT !.variant = "socket"]
    /\ pc = "k_connect"
    /\ \E method \in {"send_event", "send_frame"}, namespace \in {"", "chat", "/chat"},
          wait_for_response \in BOOLEAN, max_response_frames \in (0 - 1)..MaxMsgs :
          run = SendFrame(method, namespace, wait_for_response, max_response_frames)
    /\ attempts = <<>>

\* lines 121-127: create_connection returns a connection, or raises
SendConnect ==
    /\ pc = "k_connect"
    /\ \/ /\ run' = [run EXCEPT !.ops = Append(@, <<"connect">>)]
          /\ pc' = "k_open"
       \/ /\ run' = [run EXCEPT !.exc = "connect"]
          /\ pc' = "k_raised"
    /\ UNCHANGED <<cfg, attempts>>
    /\ UNCHANGED monVars

\* lines 129-132: the open frame of the server is read; a timeout is caught
SendReadOpen ==
    /\ pc = "k_open"
    /\ \E outcome \in RecvOutcomes :
          /\ run' = [run EXCEPT !.ops = Append(@, <<"recv", outcome>>),
                                !.handshake = IF outcome = "frame" THEN Some("0") ELSE NoneVal,
                                !.exc = IF outcome = "closed" THEN "closed" ELSE @]
          /\ pc' = IF outcome = "closed" THEN "k_close" ELSE "k_hello"
    /\ UNCHANGED <<cfg, attempts>>
    /\ UNCHANGED monVars

\* lines 133-135: the namespace-connect frame is sent
SendHello ==
    /\ pc = "k_hello"
    /\ \/ /\ run' = [run EXCEPT !.ops = Append(@, <<"send">> \o HandshakeFrame(run.namespace))]
          /\ pc' = "k_ack"
       \/ /\ run' = [run EXCEPT !.exc = "send"]
          /\ pc' = "k_close"
    /\ UNCHANGED <<cfg, attempts>>
    /\ UNCHANGED monVars

\* lines 136-139: the connect ack is read; a timeout is caught
SendReadAck ==
    /\ pc = "k_ack"
    /\ \E outcome \in RecvOutcomes :
          /\ run' = [run EXCEPT !.ops = Append(@, <<"recv", outcome>>),
                                !.ready = IF outcome = "frame" THEN Some("40") ELSE NoneVal,
                                !.exc = IF outcome = "closed" THEN "closed" ELSE @]
          /\ pc' = IF outcome = "closed" THEN "k_close" ELSE "k_main"
    /\ UNCHANGED <<cfg, attempts>>
    /\ UNCHANGED monVars

\* lines 140-143 and 193-195: the event frame or the raw frame is sent
SendMain ==
    /\ pc = "k_main"
    /\ \/ /\ run' = [run EXCEPT
                        !.ops = Append(@, <<"send">> \o MainFrame(run.method, run.namespace))]
          /\ pc' = IF run.wait_for_response THEN "k_collect" ELSE "k_close"
       \/ /\ run' = [run EXCEPT !.exc = "send"]
          /\ pc' = "k_close"
    /\ UNCHANGED <<cfg, attempts>>
    /\ UNCHANGED monVars

\* a closed connection during the collection leaves the call as an error
MutClosedPropagates ==
    /\ pc = "k_collect"
    /\ run.frames < run.max_response_frames
    /\ \E outcome \in RecvOutcomes \cup {"none"} :
          /\ run' = [run EXCEPT
                        !.ops = Append(@, <<"recv", outcome>>),
                        !.responses = IF outcome = "frame" THEN @ + 1 ELSE @,
                        !.frames = IF outcome = "frame" THEN @ + 1 ELSE @,
                        !.ended = IF outcome = "frame" THEN @ ELSE outcome,
                        !.exc = IF outcome = "closed" THEN "closed" ELSE @]
          /\ pc' = IF outcome = "frame" THEN "k_collect" ELSE "k_close"
    /\ UNCHANGED <<cfg, attempts>>
    /\ UNCHANGED monVars

\* lines 145-155: one iteration of the collection: a frame is appended; a
\* timeout, a closed connection or a None message ends the loop
SendCollect ==
    /\ pc = "k_collect"
    /\ run.frames < run.max_response_frames
    /\ \E outcome \in RecvOutcomes \cup {"none"} :
          /\ run' = [run EXCEPT
                        !.ops = Append(@, <<"recv", outcome>>),
                        !.responses = IF outcome = "frame" THEN @ + 1 ELSE @,
                        !.frames = IF outcome = "frame" THEN @ + 1 ELSE @,
                        !.ended = IF outcome = "frame" THEN @ ELSE outcome]
          /\ pc' = IF outcome = "frame" THEN "k_collect" ELSE "k_close"
    /\ UNCHANGED <<cfg, attempts>>
    /\ UNCHANGED monVars

\* line 145: enough frames
SendCollected ==
    /\ pc = "k_collect"
    /\ run.frames >= run.max_response_frames
    /\ pc' = "k_close"
    /\ UNCHANGED <<cfg, run, attempts>>
    /\ UNCHANGED monVars

\* lines 156-161: `finally: ws.close()`, then the return or the exception
SendClose ==
    /\ pc = "k_close"
    /\ run' = [run EXCEPT !.ops = Append(@, <<"close">>)]
    /\ pc' = IF run.exc # "" THEN "k_raised" ELSE "k_returned"
    /\ UNCHANGED <<cfg, attempts>>
    /\ UNCHANGED monVars

NextSend ==
    \/ SendConnect
    \/ SendReadOpen
    \/ SendHello
    \/ SendReadAck
    \/ SendMain
    \/ SendCollect
    \/ SendCollected
    \/ SendClose

SpecSend == InitSend /\ [][NextSend]_vars

\* ------------------------------------------------ the replay of an attempt
\* generate_poc 224-264 with validate_http_requests
\* (command_injection/http/remote_validator.py), studied on its own: the
\* parse loop (ParseOne, ParseDone) builds the list, then the replay.
\* `target.rstrip("/") + "/"` of the target of the model
TargetBase == "http://target/"

\* a request line whose path urljoin rejects (ValueError: Invalid IPv6 URL)
BadPathLine == <<"POST", "x://[y", "HTTP/1.1">>

\* the blocks of the attempts replayed: those of the parse loop and one
\* that parses and has no URL
ReplaySamples == Samples("http") \cup {<<BadPathLine, HostLine>>}

\* `path.lstrip("/")`, on the paths of the model
LstripSlash(path) ==
    CASE path = "/" -> ""
      [] path = "/cgi" -> "cgi"
      [] OTHER -> path

\* _resolve_url, remote_validator.py 11-18: the URL is the base and what
\* urljoin appends to it, or the path itself when it is an absolute URL
resolve_url(message, target_base) ==
    LET path == IF message.path = "" THEN "/" ELSE message.path
    IN IF path \in {"http://other/cgi", "https://other/cgi"} THEN Return(<<path>>)
       ELSE IF LstripSlash(path) = "x://[y" THEN Raise("Invalid IPv6 URL")
       ELSE Return(<<target_base, LstripSlash(path)>>)

\* _prepare_headers, remote_validator.py 21-27
prepare_headers(headers) ==
    [k \in {h \in DOMAIN headers : h \notin {<<"Content-Length">>, <<"content-length">>}}
        |-> headers[k]]

\* remote_validator.py 49-56: what client.request is called with
HttpRequest(message, url) ==
    [method |-> IF message.method = "" THEN "POST" ELSE message.method,
     url |-> url,
     headers |-> prepare_headers(message.headers),
     content |-> IF message.body = <<>> THEN NoneVal ELSE Some(message.body)]

\* the locals after the parse loop, with those of the call of the
\* validator: its argument (none while it is not called), its loop index,
\* the requests it has sent and its results, and what generate_poc keeps
ReplayFrame(r, invoked) ==
    [raw_messages |-> r.raw_messages, requests |-> r.requests,
     parse_issues |-> r.parse_issues, calls |-> r.calls,
     invoked |-> invoked, idx |-> 0, sent |-> <<>>, results |-> <<>>,
     validation_results |-> NoneVal, validation_error |-> NoneVal]

InitReplay ==
    /\ now = 1
    /\ other_busy = {}
    /\ mon = [m \in MonIds |-> NewMonitor(MONITOR_PORT)]
    /\ thr = [h \in Handlers |-> IdleThread]
    /\ w = IdleWait
    /\ aux = InitAux
    /\ \E auto_validate \in BOOLEAN, has_target \in BOOLEAN :
          cfg = [NoCfg EXCEPT !.auto_validate = auto_validate, !.has_target = has_target]
    /\ pc = "p_loop"
    /\ \E n \in 0..MaxBlocks : \E raw_messages \in [1..n -> ReplaySamples] :
          run = ParseFrame(raw_messages)
    /\ attempts = <<>>

MutBlockedByIssues ==
    /\ pc = "p_done"
    /\ ReplayWanted(cfg.variant, cfg.auto_validate, cfg.has_target, run.requests # <<>>)
    /\ IF run.parse_issues = <<>>
       THEN /\ run' = ReplayFrame(run, Some(run.requests))
            /\ pc' = "y_loop"
       ELSE /\ run' = ReplayFrame(run, NoneVal)
            /\ pc' = "y_done"
    /\ UNCHANGED <<cfg, attempts>>
    /\ UNCHANGED monVars

\* generator.py 239-246: `if auto_validate and target and requests:`,
\* validate_http_requests(requests, target) is called
ReplayCall ==
    /\ pc = "p_done"
    /\ ReplayWanted(cfg.variant, cfg.auto_validate, cfg.has_target, run.requests # <<>>)
    /\ run' = ReplayFrame(run, Some(run.requests))
    /\ pc' = "y_loop"
    /\ UNCHANGED <<cfg, attempts>>
    /\ UNCHANGED monVars

\* generator.py 239: the condition fails, no replay
ReplaySkipped ==
    /\ pc = "p_done"
    /\ ~ReplayWanted(cfg.variant, cfg.auto_validate, cfg.has_target, run.requests # <<>>)
    /\ run' = ReplayFrame(run, NoneVal)
    /\ pc' = "y_done"
    /\ UNCHANGED <<cfg, attempts>>
    /\ UNCHANGED monVars

\* remote_validator.py 47-76: one iteration, the request is sent and its
\* result appended, also when the transport raises
ReplaySend ==
    /\ pc = "y_loop"
    /\ run.idx < Len(run.invoked[1])
    /\ LET message == run.invoked[1][run.idx + 1]
           url == resolve_url(message, TargetBase)
       IN /\ ~url.raised
          /\ \E outcome \in SendOutcomes("http") :
                run' = [run EXCEPT !.sent = Append(@, HttpRequest(message, url.value)),
                                   !.results = Append(@, HttpResult(run.idx, outcome)),
                                   !.idx = @ + 1]
    /\ pc' = "y_loop"
    /\ UNCHANGED <<cfg, attempts>>
    /\ UNCHANGED monVars

\* remote_validator.py 48 raises outside the inner try; generator.py
\* 259-262 catches it: no results, the text of the error
ReplayResolveRaises ==
    /\ pc = "y_loop"
    /\ run.idx < Len(run.invoked[1])
    /\ LET url == resolve_url(run.invoked[1][run.idx + 1], TargetBase)
       IN /\ url.raised
          /\ run' = [run EXCEPT !.validation_error = Some(url.error)]
    /\ pc' = "y_done"
    /\ UNCHANGED <<cfg, attempts>>
    /\ UNCHANGED monVars

\* remote_validator.py 81, generator.py 246: the results are returned
ReplayReturns ==
    /\ pc = "y_loop"
    /\ run.idx >= Len(run.invoked[1])
    /\ run' = [run EXCEPT !.validation_results = Some(run.results)]
    /\ pc' = "y_done"
    /\ UNCHANGED <<cfg, attempts>>
    /\ UNCHANGED monVars

NextReplay ==
    \/ ParseOne \/ ParseDone
    \/ ReplayCall \/ ReplaySkipped
    \/ ReplaySend \/ ReplayResolveRaises \/ ReplayReturns

SpecReplay == InitReplay /\ [][NextReplay]_vars

\* ================================================================== claims
Exited == pc \in {"returned", "raised"}

\* ---------------------------------------------------------------------- C1
\* C1 (as claimed): a run performs at least 1 and at most max_iters
\* attempts; it performs fewer than max_iters only when its last attempt
\* recorded a hit with stop_on_success in effect; no attempt follows such an
\* attempt; without stop_on_success all max_iters attempts are performed.
\* An attempt is one full cycle, ending with its entry in the history.  A
\* run that fails within its very first attempt is left aside (the failure
\* of the first LLM call is meant to end the run).
C1_AttemptsBounded ==
    (Exited /\ ~(run.exc # "" /\ run.started = 1)) =>
        LET n == Len(attempts) IN
        /\ 1 <= n
        /\ n <= cfg.max_iters
        /\ n < cfg.max_iters => (attempts[n].monitor_hit /\ cfg.stop_after_success)
        /\ \A i \in 1..(n - 1) : ~(attempts[i].monitor_hit /\ cfg.stop_after_success)
        /\ ~cfg.stop_after_success => n = cfg.max_iters

\* ---------------------------------------------------------------------- C2
\* C2: when the run has bound a listener of its own, then at every exit of
\* generate_poc, by return or by exception, stop() has been called on the
\* listening monitor and the listener is no longer bound.
C2_OwnedMonitorStopped ==
    (Exited /\ run.bind_errno = "ok") =>
        /\ "Listening" \in run.stop_log
        /\ ~mon["run"].server
        /\ "run" \notin ListenerAt(cfg.mon_port)

\* the run has left by an exception and its listener was stopped
C2_StoppedAfterException ==
    /\ pc = "raised"
    /\ run.bind_errno = "ok"
    /\ "Listening" \in run.stop_log
    /\ Len(attempts) >= 1

\* ---------------------------------------------------------------------- C3
\* C3: the success flag of a returned GenerationResult is true exactly when
\* some attempt of the history has monitor_hit true.
C3_SuccessIffSomeHit ==
    pc = "returned" =>
        (run.overall_success <=> \E i \in DOMAIN attempts : attempts[i].monitor_hit)

\* a returned run whose first attempt recorded the hit and whose last did not
C3_EarlierHitOnly ==
    /\ pc = "returned"
    /\ Len(attempts) = 2
    /\ attempts[1].monitor_hit
    /\ ~attempts[2].monitor_hit
    /\ run.overall_success

\* ---------------------------------------------------------------------- C4
\* C4 (as claimed): the hit an attempt is credited with was not received
\* before the LLM call of that attempt began, whatever the attempt index,
\* when the run owns its listener and when it polls an external monitor
\* found at startup.
C4_NoHitBeforeGeneration ==
    (run.bind_errno = "ok" \/ run.external_monitor_url # 0) =>
        \A i \in DOMAIN attempts :
            attempts[i].monitor_hit =>
                attempts[i].credit[1].hit_ts >= attempts[i].credit[1].gen_ts

\* ---------------------------------------------------------------------- C5
\* C5 (as claimed): a run that shares a monitor it does not own (external
\* at startup, or Reused after start()) credits an attempt only with a hit
\* whose timestamp is at or after the start time of the run.
C5_SharedHitSinceRunStart ==
    (run.external_monitor_url # 0 \/ run.bind_errno = "EADDRINUSE") =>
        \A i \in DOMAIN attempts :
            attempts[i].monitor_hit =>
                attempts[i].credit[1].hit_ts >= run.generation_start_ts

\* ---------------------------------------------------------------------- C7
\* C7 (as claimed): after a failed bind the monitor is Reused exactly when
\* the bind failed with address-in-use and another monitor answers at the
\* address the instance was to listen on; otherwise it is Failed and not
\* running.
C7_ReusedIffMonitorAtAddress ==
    (run.monitor /\ run.bind_errno # "ok" /\ ~Exited) =>
        LET answered == /\ run.bind_errno = "EADDRINUSE"
                        /\ "ext" \in ListenerAt(cfg.mon_port)
        IN /\ answered => (Mode(mon["run"]) = "Reused" /\ is_running(mon["run"]))
           /\ ~answered => (Mode(mon["run"]) = "Failed" /\ ~is_running(mon["run"]))

\* ---------------------------------------------------------------------- C8
\* C8 (as claimed): stop() is never invoked on a monitor in Reused mode.
C8_NeverStopsReused == "Reused" \notin run.stop_log

\* C8 (amended): at exit stop() is invoked on every monitor object the run
\* created, whatever its mode; afterwards the object neither listens nor
\* counts as running; a listener is closed only if the run had bound it,
\* and the external monitor of a Reused instance keeps listening.
C8_StopClosesOnlyOwnSocket ==
    Exited =>
        /\ (run.stop_log # {}) <=> run.monitor
        /\ ("Listening" \in run.stop_log) <=> (run.bind_errno = "ok")
        /\ run.monitor => (~mon["run"].server /\ ~is_running(mon["run"]))
        /\ ("Reused" \in run.stop_log) =>
               \E m \in ListenerAt(MONITOR_PORT) : m = "ext"

\* stop() was invoked on a Reused monitor and the external monitor listens on
C8_ReusedStopped ==
    /\ Exited
    /\ "Reused" \in run.stop_log
    /\ mon["ext"].server
    /\ ~mon["run"].reused_existing

\* ---------------------------------------------------------------------- C6
\* C6: on an owned, listening monitor wait_for_hit returns true only when a
\* hit was recorded since its last true result (so a second call with no
\* hit in between returns false), and it does return true when a hit was
\* recorded and nothing has cleared the event since.
C6_TrueOncePerHit ==
    w.pc \in {"clear", "ret"} =>
        /\ w.result => w.was_fresh
        /\ (w.was_fresh /\ ~w.was_disturbed) => w.result

\* a wait has returned true, no hit was recorded since, and the next wait
\* has returned false
C6_SecondCallFalse ==
    /\ w.pc = "ret"
    /\ ~w.result
    /\ aux.consumed
    /\ mon["run"].server

\* ---------------------------------------------------------------------- C9
\* C9: every request a listening monitor has finished that is not for
\* /_status, whatever its method, was recorded as a hit and answered 200 OK;
\* a request for /_status was not recorded.
C9_EveryRequestIsHit ==
    \A h \in Handlers :
        thr[h].pc = "closed" =>
            IF IsStatusPath(thr[h].req[1].path)
            THEN ~thr[h].recorded
            ELSE /\ thr[h].recorded
                 /\ thr[h].resp = Some([code |-> 200, body |-> "OK"])

\* --------------------------------------------------------------------- C10
\* C10: handle_status replies with the state as it is; without clear it
\* leaves the monitor as it was and is done; the clear of a clear=1 request
\* leaves the hit flag unset and timestamp and summary empty, so that a
\* status read then reports hit=false, hit_time 0 and an empty summary.
C10_StatusAndClear ==
    [][\A h \in Handlers :
          /\ (thr[h].pc = "hs_read" /\ thr'[h].pc # "hs_read") =>
                /\ thr'[h].resp = Some([code |-> 200, body |-> StatusOf(mon[thr[h].mon])])
                /\ mon' = mon
                /\ thr'[h].pc = IF thr[h].req[1].clear = "1" THEN "hs_clear" ELSE "closed"
          /\ (thr[h].pc = "hs_clear" /\ thr'[h].pc # "hs_clear") =>
                /\ thr'[h].resp = thr[h].resp
                /\ ~mon'[thr[h].mon].event
                /\ mon'[thr[h].mon].last_hit_ts = NoneVal
                /\ mon'[thr[h].mon].last_request_summary = NoneVal
                /\ StatusOf(mon'[thr[h].mon]) =
                       [ok |-> TRUE, hit |-> FALSE, hit_time |-> 0, summary |-> EmptyStr]
      ]_vars

\* a clear=1 request has reported a hit and the monitor holds none any more
C10_ClearedAfterReport ==
    \E h \in Handlers :
        /\ thr[h].pc = "closed"
        /\ thr[h].req[1].clear = "1"
        /\ thr[h].resp[1].code = 200
        /\ thr[h].resp[1].body.hit
        /\ thr[h].resp[1].body.hit_time > 0
        /\ mon[thr[h].mon].last_hit_ts = NoneVal
        /\ ~mon[thr[h].mon].event

\* C11 (as claimed): a monitor started for an address where another monitor
\* already listens is Reused, so an attempt of its run that has messages
\* waits on it by polling the first monitor, and a hit it is credited with
\* comes with the summary the first monitor reported.
C11_SecondObservesFirst ==
    /\ pc = "record"
    /\ run.bind_errno = "EADDRINUSE"
    /\ "ext" \in ListenerAt(cfg.mon_port)
    /\ run.have_requests
    => /\ run.waited
       /\ run.monitor_hit \/ run.polled
       /\ run.monitor_hit => mon["run"].last_request_summary # NoneVal

\* C12 (as claimed): an exception of client.chat leaves generate_poc only
\* when it is raised by the first attempt's call.
C12_OnlyFirstCallPropagates ==
    pc = "raised" /\ run.exc = "llm" => run.started = 1

IsPlaceholder(msg) == "method" \in DOMAIN msg /\ msg.method = "" /\ msg.path = ""

\* C17 (as claimed): no call of parse_and_validate raises; what it returns
\* is a message that is no placeholder with no warning, or a placeholder
\* with at least one warning.
C17_NeverRaises ==
    \A c \in 1..Len(run.calls) :
        LET out == run.calls[c]
        IN /\ ~out.raised
           /\ \/ ~IsPlaceholder(out.value[1]) /\ out.value[2] = <<>>
              \/ IsPlaceholder(out.value[1]) /\ out.value[2] # <<>>

\* C18 (as claimed): when the parse loop of either variant is through, the
\* message list has one entry per raw block, in order: the parsed message,
\* or for a block that does not parse a placeholder holding the raw text,
\* and then a parse issue carries the block's index.
C18_OneEntryPerBlock ==
    pc = "p_done" =>
        /\ Len(run.requests) = Len(run.raw_messages)
        /\ \A p \in 1..Len(run.raw_messages) :
              IF run.calls[p].raised
              THEN /\ run.requests[p] = Placeholder(run.raw_messages[p])
                   /\ \E i \in 1..Len(run.parse_issues) :
                         run.parse_issues[i][1] = p - 1 /\ run.parse_issues[i][2] = "parse error"
              ELSE run.requests[p] = run.calls[p].value[1]

\* C14: generate_poc called with a key that has no handler does not get
\* past its first statement, where it raises the unsupported-type error:
\* no chat log is created, no monitor is probed, reset or started, no LLM
\* call is made, no file is saved and no attempt is recorded.
C14_UnsupportedBeforeSideEffects ==
    cfg.variant = "http" /\ ~Supported(cfg.key) =>
        /\ pc \in {"entry", "rejected"}
        /\ pc = "rejected" => run.exc = "unsupported"
        /\ ~run.chat_log
        /\ ~run.monitor /\ run.external_monitor_url = 0 /\ run.stop_log = {}
        /\ mon = [m \in MonIds |-> NewMonitor(MONITOR_PORT)]
        /\ run.started = 0 /\ ~run.saved /\ attempts = <<>>

C14_RejectedWithMonitorWanted ==
    /\ pc = "rejected"
    /\ run.exc = "unsupported"
    /\ cfg.key = "sql_injection"
    /\ cfg.monitor_wanted /\ cfg.has_target /\ cfg.max_iters = MaxIters

\* C15: without auto_validate a run makes at most one LLM call and, when it
\* returns, has made exactly one and appended exactly one attempt, whatever
\* number of iterations was asked for; it creates, probes and shares no
\* monitor, and no attempt of it is replayed or waits on the oracle.
C15_SingleShotWithoutValidation ==
    ~cfg.auto_validate =>
        /\ run.started <= 1 /\ Len(attempts) <= 1
        /\ pc = "returned" => run.started = 1 /\ Len(attempts) = 1
        /\ pc \notin {"mon_create", "reset", "poll", "waiting"}
        /\ ~run.monitor /\ run.external_monitor_url = 0 /\ ~run.monitor_running
        /\ mon["run"] = NewMonitor(MONITOR_PORT)
        /\ ~run.replayed /\ ~run.waited /\ ~run.polled /\ ~run.monitor_hit
        /\ \A i \in 1..Len(attempts) :
              ~attempts[i].replayed /\ ~attempts[i].waited /\ ~attempts[i].monitor_hit

C15_OneAttemptOfSeveralAsked ==
    /\ pc = "returned"
    /\ ~cfg.auto_validate
    /\ cfg.asked_iters = MaxIters
    /\ cfg.has_target
    /\ Len(attempts) = 1 /\ attempts[1].have_requests

\* the orchestrator is inside an iteration of the attempt loop
InAttempt == pc \in {"llm", "post", "replay", "oracle", "poll", "waiting", "record"}

\* C16: every attempt of the history has no feedback if it recorded a hit
\* and a non-empty feedback text if it did not; the LLM input of every
\* attempt after the first, appended or under way, has the feedback turn
\* exactly when the attempt before it recorded no hit.
C16_FeedbackIffNoHit ==
    /\ \A i \in 1..Len(attempts) :
          /\ attempts[i].monitor_hit => attempts[i].feedback = NoneVal
          /\ ~attempts[i].monitor_hit => Truthy(attempts[i].feedback)
          /\ i > 1 => (attempts[i].fed <=> ~attempts[i - 1].monitor_hit)
    /\ InAttempt /\ Len(attempts) >= 1 =>
          (run.fed <=> ~attempts[Len(attempts)].monitor_hit)

C16_NoTurnAfterHit ==
    /\ pc = "returned"
    /\ Len(attempts) = 2
    /\ attempts[1].monitor_hit /\ attempts[1].feedback = NoneVal
    /\ ~attempts[2].fed
    /\ ~attempts[2].monitor_hit /\ Truthy(attempts[2].feedback)

\* C19: a run whose monitor neither bound nor found a monitor to reuse goes
\* on: the outcome of start() raises nothing, the run that returns has made
\* all its attempts, it never waits on the oracle, every attempt has
\* monitor_hit false and a feedback with the "monitor is unavailable"
\* notice, and success is false.
C19_FailedOracleRunGoesOn ==
    run.monitor /\ ~run.monitor_running =>
        /\ run.exc \in {"", "llm", "save"}
        /\ pc = "returned" => Len(attempts) = cfg.max_iters
        /\ pc \notin {"poll", "waiting"} /\ ~run.waited /\ ~run.polled /\ ~run.monitor_hit
        /\ ~run.overall_success
        /\ \A i \in 1..Len(attempts) :
              /\ ~attempts[i].waited /\ ~attempts[i].monitor_hit
              /\ attempts[i].feedback # NoneVal
              /\ \E n \in 1..Len(attempts[i].feedback[1]) :
                    attempts[i].feedback[1][n] = "Attacker monitor is unavailable"

C19_FailedOracleAllAttempts ==
    /\ pc = "returned"
    /\ run.bind_errno = "EACCES"
    /\ ~run.monitor_running
    /\ Len(attempts) = MaxIters
    /\ \A i \in 1..Len(attempts) : attempts[i].have_requests /\ attempts[i].replayed

HasSection(text, section) ==
    text # NoneVal /\ \E n \in 1..Len(text[1]) : text[1][n] = section

\* C13: no exception of the sampler or of the replay leaves the run.  After
\* a sampler failure the run is past the sampling with no target profile,
\* and no LLM input has the profile turn.  After a replay failure the
\* attempt goes on to the oracle step and is appended with its files saved,
\* without validation results, and with the error in its feedback; the run
\* that returns hands back the saved paths of its last attempt.
C13_SamplerAndReplayFailuresCaught ==
    /\ run.exc \in {"", "llm", "save", "unsupported"}
    /\ run.sampler = "failed" =>
          /\ pc # "sample" /\ ~run.target_profile /\ ~run.profiled
          /\ \A i \in 1..Len(attempts) : ~attempts[i].profiled
    /\ run.validation = "error" => pc \in {"oracle", "poll", "waiting", "record"}
    /\ \A i \in 1..Len(attempts) :
          attempts[i].validation = "error" =>
              /\ attempts[i].saved /\ attempts[i].replayed
              /\ ~attempts[i].monitor_hit =>
                    HasSection(attempts[i].feedback,
                               "Target validation did not run due to error")
    /\ pc = "returned" =>
          /\ Len(attempts) >= 1
          /\ run.last_saved = attempts[Len(attempts)].saved

C13_ReturnedAfterBothFailures ==
    /\ pc = "returned"
    /\ run.sampler = "failed"
    /\ Len(attempts) = MaxIters
    /\ \A i \in 1..Len(attempts) : attempts[i].validation = "error"
    /\ run.last_saved

\* the calls of parse_and_validate on an HTTP block that returned
HttpReturned ==
    {c \in 1..Len(run.calls) : cfg.variant = "http" /\ ~run.calls[c].raised}

\* C28 (as claimed): HTTPMessage.parse constructs a message only from a
\* text whose first line has exactly three white-space separated tokens;
\* on a first line of fewer or of more tokens, and on the empty text, it
\* fails.
C28_ExactlyThreeTokens ==
    \A c \in HttpReturned :
        /\ Len(run.raw_messages[c]) > 0
        /\ Len(run.raw_messages[c][1]) = 3

\* C29 (as claimed): a SocketEventMessage that SocketEventMessage.parse
\* constructs has exactly one of url and path, and if it has no raw_frame
\* it has a non-empty event and a payload; any other input is rejected.
C29_OneAddressEventAndPayload ==
    \A c \in 1..Len(run.calls) :
        (cfg.variant = "socket" /\ ~run.calls[c].raised) =>
            LET message == run.calls[c].value[1]
            IN /\ (message.url # "") # (message.path # NoneVal)
               /\ message.raw_frame = NoneVal =>
                      /\ message.event \notin {NoneVal, Some("")}
                      /\ message.payload # NoneVal

Mismatch(errs) == \E i \in 1..Len(errs) : errs[i] = "Content-Length mismatch"

\* the header is present and int() accepts its value
DeclaredInt(msg) ==
    IF <<"Content-Length">> \notin DOMAIN msg.headers THEN NoneVal
    ELSE IntOf(msg.headers[<<"Content-Length">>])

\* the same with a header of no value counted as a declared length of 0
DeclaredOrZero(msg) ==
    IF <<"Content-Length">> \notin DOMAIN msg.headers THEN NoneVal
    ELSE IF msg.headers[<<"Content-Length">>] = <<>> THEN Some(0)
    ELSE IntOf(msg.headers[<<"Content-Length">>])

\* a supported version, a method and a path, a Host header, and a declared
\* length that is the length of the body
CleanRequest(msg) ==
    /\ Upper(msg.version) \in {"HTTP/1.0", "HTTP/1.1", "HTTP/2", "HTTP/2.0"}
    /\ msg.method # "" /\ msg.path # ""
    /\ <<"Host">> \in DOMAIN msg.headers
    /\ DeclaredOrZero(msg) = Some(BodyBytes(msg.body))

\* C24 (as claimed): validate_http_message reports a Content-Length
\* mismatch exactly when the header is present, its value parses as an
\* integer and the integer differs from the byte length of the body; on a
\* clean request it returns the empty list.
C24_MismatchIffParsedIntDiffers ==
    \A c \in HttpReturned :
        LET msg == run.calls[c].value[1]
            errs == run.calls[c].value[2]
        IN /\ Mismatch(errs) <=>
                  /\ DeclaredInt(msg) # NoneVal
                  /\ DeclaredInt(msg)[1] # BodyBytes(msg.body)
           /\ CleanRequest(msg) => errs = <<>>

\* C24 (amended): validate_http_message reports a Content-Length mismatch
\* exactly when the header is present, its value is empty (then taken as 0)
\* or parses as an integer, and that number differs from the byte length
\* of the body; on a clean request it returns the empty list.
C24_MismatchIffDeclaredDiffers ==
    \A c \in HttpReturned :
        LET msg == run.calls[c].value[1]
            errs == run.calls[c].value[2]
        IN /\ Mismatch(errs) <=>
                  /\ DeclaredOrZero(msg) # NoneVal
                  /\ DeclaredOrZero(msg)[1] # BodyBytes(msg.body)
           /\ CleanRequest(msg) => errs = <<>>

\* a header of no value before a body of ten bytes has been validated
C24_EmptyValueValidated ==
    \E c \in HttpReturned :
        LET msg == run.calls[c].value[1]
        IN /\ <<"Content-Length">> \in DOMAIN msg.headers
           /\ msg.headers[<<"Content-Length">>] = <<>>
           /\ BodyBytes(msg.body) = 10
           /\ Mismatch(run.calls[c].value[2])

\* the calls of parse_and_validate on the request of the test
TestCalls ==
    {c \in 1..Len(run.calls) : cfg.variant = "http" /\ run.raw_messages[c] = RAW}

\* what HTTPMessage.parse makes of the request of the test
TestParsed(out) ==
    /\ ~out.raised
    /\ out.value[1].method = "POST"
    /\ out.value[1].path = "/do.cgi"
    /\ out.value[1].version = "HTTP/1.1"
    /\ <<"Host">> \in DOMAIN out.value[1].headers

\* C25 (as claimed): the request of the test parses to method POST, path
\* /do.cgi, version HTTP/1.1 and a Host header, and its validation reports
\* a Content-Length mismatch.
C25_TestRequestMismatch ==
    \A c \in TestCalls : TestParsed(run.calls[c]) /\ Mismatch(run.calls[c].value[2])

\* C25 (amended): the request of the test parses to method POST, path
\* /do.cgi, version HTTP/1.1 and a Host header, and its validation reports
\* nothing: the body 'cmd=ls -la' has the 10 bytes that are declared.
C25_TestRequestIsClean ==
    \A c \in TestCalls : TestParsed(run.calls[c]) /\ run.calls[c].value[2] = <<>>

\* the request of the test has been parsed and validated
C25_TestRequestValidated ==
    \E c \in TestCalls : BodyBytes(run.calls[c].value[1].body) = 10

\* the sections of the text a call of _build_attempt_feedback returned
Returned == IF pc = "f_returned" /\ run.result # NoneVal THEN run.result[1] ELSE <<>>

SummaryLines ==
    LET found == {n \in 1..Len(Returned) : Returned[n].head = "Target validation summary:"}
    IN IF found = {} THEN <<>> ELSE Returned[CHOOSE n \in found : TRUE].items

Results == IF run.validation_results = NoneVal THEN <<>> ELSE run.validation_results[1]

\* C26: the text _build_attempt_feedback returns has every parse issue it
\* was given and one summary line per validation result it was given, in
\* order, with the request index, `HTTP <status_code>` or `no status`, the
\* error text if there is one and the preview cut to at most 200
\* characters; the closing advice is in the text exactly when there is a
\* parse issue or a failed result.
C26_IssuesSummariesAndAdvice ==
    pc = "f_returned" =>
        /\ \A i \in 1..Len(run.parse_issues) :
              \E n \in 1..Len(Returned) :
                 \E j \in 1..Len(Returned[n].items) :
                    Returned[n].items[j] = run.parse_issues[i]
        /\ Len(SummaryLines) = Len(Results)
        /\ \A k \in 1..Len(Results) :
              LET res == Results[k]
                  line == SummaryLines[k]
                  bodies == {d \in 1..Len(line.detail) : line.detail[d].kind = "body"}
              IN /\ line.index = res.request_index
                 /\ line.status = IF res.status_code = NoneVal THEN <<"no status">>
                                  ELSE <<"HTTP", res.status_code[1]>>
                 /\ (res.error # NoneVal /\ res.error[1] # "") =>
                        \E d \in 1..Len(line.detail) :
                           line.detail[d].kind = "error" /\ line.detail[d].text = res.error[1]
                 /\ \A d \in bodies :
                        /\ line.detail[d].chars <= PREVIEW_CUT
                        /\ line.detail[d].text = res.response_preview.text
                 /\ (res.response_preview.chars > 0) = (bodies # {})
        /\ (\E n \in 1..Len(Returned) :
               Returned[n].head = "Adjust along four tracks before the next attempt:")
           <=> \/ run.parse_issues # <<>>
               \/ \E k \in 1..Len(Results) : ~Results[k].success

\* a call with parse issues, a failed result and a preview longer than the
\* cut has returned
C26_LongPreviewSummarised ==
    /\ pc = "f_returned"
    /\ run.parse_issues # <<>>
    /\ \E k \in 1..Len(Results) : ~Results[k].success
    /\ \E k \in 1..Len(Results) : Results[k].response_preview.chars > PREVIEW_CUT

Notices ==
    {"Attacker monitor did NOT receive the expected wget callback",
     "Attacker monitor is unavailable"}

\* C27: whatever it is given, _build_attempt_feedback returns a text, never
\* nothing; the text has exactly one of the two notices on the oracle, the
\* reminder that no callback came when monitor_active is true and the
\* notice that the monitor is unavailable when it is false, and the notice
\* has `wget ` followed by the attacker URL of the call.
C27_OneOracleNotice ==
    pc = "f_returned" =>
        /\ run.result # NoneVal
        /\ run.result[1] # <<>>
        /\ \E n \in 1..Len(Returned) :
              /\ Returned[n].head \in Notices
              /\ \A m \in 1..Len(Returned) : Returned[m].head \in Notices => m = n
              /\ Returned[n].head =
                    IF run.monitor_active
                    THEN "Attacker monitor did NOT receive the expected wget callback"
                    ELSE "Attacker monitor is unavailable"
              /\ \E j \in 1..Len(Returned[n].items) :
                    Returned[n].items[j] = <<"wget", run.attacker_url>>

\* a call with no parse issue and an empty list of results has returned:
\* the notice is all there is to say
C27_OnlyTheNotice ==
    /\ pc = "f_returned"
    /\ run.parse_issues = <<>>
    /\ run.validation_results = Some(<<>>)
    /\ Len(Returned) = 1

\* the request lines of a text, in order, and its lines of any kind
RequestItems(text) ==
    SelectSeq(text, LAMBDA item : item.kind = "text" /\ item.text \in RequestLines)

Written(text) == SelectSeq(text, LAMBDA item : ~IsBreak(item))

\* the blocks split_messages returned
Blocks == IF pc = "s_split" THEN run.raw_messages[1] ELSE <<>>

\* block is text without the line ends before its first and after its last
\* line
Trimmed(text, block) ==
    \E i, j \in 1..Len(text) :
        /\ block = SubSeq(text, i, j)
        /\ ~IsBreak(text[i]) /\ ~IsBreak(text[j])
        /\ \A k \in 1..Len(text) : (k < i \/ k > j) => IsBreak(text[k])

\* C21: of a text with exactly one well-formed request line split_messages
\* returns exactly one block, the trimmed text.
C21_OneRequestLineOneBlock ==
    (pc = "s_split" /\ Len(RequestItems(run.raw_output)) = 1) =>
        /\ Len(Blocks) = 1
        /\ Trimmed(run.raw_output, Blocks[1])

\* a text with prose before its one request line and a header after it has
\* been split
C21_ProseBeforeRequestSplit ==
    /\ pc = "s_split"
    /\ Len(RequestItems(run.raw_output)) = 1
    /\ Len(Written(run.raw_output)) = 3
    /\ Written(run.raw_output)[2].text \in RequestLines

\* C22 (as claimed): of a text with N > 1 well-formed request lines
\* split_messages returns exactly N blocks, the k-th beginning with the
\* k-th request line, and the blocks together have every line of the text,
\* in order.
C22_BlocksCoverText ==
    (pc = "s_split" /\ Len(RequestItems(run.raw_output)) > 1) =>
        /\ Len(Blocks) = Len(RequestItems(run.raw_output))
        /\ \A k \in 1..Len(Blocks) : Blocks[k][1] = RequestItems(run.raw_output)[k]
        /\ Written(JoinLines(Blocks)) = Written(run.raw_output)

\* the files save_messages wrote
Files == IF pc \in {"w_loop", "w_returned"} THEN run.written ELSE <<>>

\* where the first blank line of a written text ends
BodyStart(text) ==
    LET ends == {i + 2 : i \in Occurrences(text, <<Lf, Lf>>)}
                \cup {i + 4 : i \in Occurrences(text, <<Cr, Lf, Cr, Lf>>)}
    IN IF ends = {} THEN Len(text) + 1 ELSE Kth(ends, 1)

\* C23 (as claimed): a message with a body that save_messages has written
\* has a Content-Length header before its blank line, and the header's
\* number is the byte length of the body as it is in the file.
C23_LengthOfWrittenBody ==
    \A k \in 1..Len(Files) :
        LET start == BodyStart(Files[k])
            body == SubSeq(Files[k], start, Len(Files[k]))
        IN body # <<>> =>
              \E i \in 1..(start - 1) :
                 Files[k][i].kind = "length" /\ Files[k][i].n = TextBytes(body)

\* the steps of an attempt in their order; saving and parsing are one
\* place, in either order
StepOrder(second, third) ==
    <<"chat", "split", second, third, "replay", "wait", "feedback", "append">>

\* the sequences of steps that keep the order, none twice
OrderedSteps ==
    {Pick(order, S) : order \in {StepOrder("save", "parse"), StepOrder("parse", "save")},
                      S \in SUBSET (1..8)}

Has(steps, step) == \E i \in 1..Len(steps) : steps[i] = step

\* the steps are in order and begin with the LLM call; a replay comes
\* after the reply was split, saved and parsed; an oracle wait comes after
\* the parse and, if the replay is enabled, after the replay; the attempt
\* is appended last
InOrder ==
    [replay_enabled \in BOOLEAN |->
        {steps \in OrderedSteps :
            /\ Len(steps) > 0 => steps[1] = "chat"
            /\ Has(steps, "replay") =>
                  Has(steps, "split") /\ Has(steps, "save") /\ Has(steps, "parse")
            /\ Has(steps, "wait") =>
                  /\ Has(steps, "split") /\ Has(steps, "parse")
                  /\ replay_enabled => Has(steps, "replay")
            /\ Has(steps, "append") =>
                  /\ Has(steps, "split") /\ Has(steps, "parse")
                  /\ steps[Len(steps)] = "append"}]

C32_AdjustIdempotent ==
    pc = "a_twice" => run.outputs[2] = run.outputs[1]

\* the pieces of a text that are no white space
Solid(text) == SelectSeq(text, LAMBDA piece : piece # " ")

\* how many JSON values a text begins with
Leading(text) ==
    Cardinality({k \in 1..Len(Solid(text)) :
                    \A j \in 1..k : Solid(text)[j] \in JsonPieces})

\* C34: of a text that is not only white space split_socket_messages
\* returns one block per JSON value decoded from the start of the text up
\* to the first piece that does not decode; what follows is dropped, but
\* if no value was decoded the whole trimmed text is the one block; the
\* list returned is never empty.
C34_DecodedPrefixOrFallback ==
    (pc = "j_returned" /\ Solid(run.raw_output) # <<>>) =>
        /\ run.blocks # <<>>
        /\ IF Leading(run.raw_output) > 0
           THEN run.blocks = [k \in 1..Leading(run.raw_output) |->
                                 [json |-> TRUE, text |-> <<Solid(run.raw_output)[k]>>]]
           ELSE /\ Len(run.blocks) = 1
                /\ ~run.blocks[1].json
                /\ Solid(run.blocks[1].text) = Solid(run.raw_output)
                /\ run.blocks[1].text[1] # " "
                /\ run.blocks[1].text[Len(run.blocks[1].text)] # " "

\* a value, then text that does not decode, then a value: one block
C34_RemainderDropped ==
    /\ pc = "j_returned"
    /\ Leading(run.raw_output) = 1
    /\ Len(Solid(run.raw_output)) = 3
    /\ Solid(run.raw_output)[3] \in JsonPieces

\* the positions in `ops` of the reads, and of the sends of a frame
Reads == {i \in 1..Len(run.ops) : run.ops[i][1] = "recv"}
Sends(frame) == {i \in 1..Len(run.ops) : run.ops[i] = <<"send">> \o frame}

\* C35: in every call of send_event and send_frame the namespace-connect
\* frame (40 or 40/<ns>) is sent before the event or raw frame, after a
\* read of the server's open frame and before a read of the connect ack;
\* response frames are collected only when wait_for_response is true, and
\* no more than max_response_frames of them; a read timeout or a closed
\* connection during the collection ends it without an error; the
\* connection is closed on every way out.
C35_HandshakeBeforeFrame ==
    pc \in {"k_open", "k_hello", "k_ack", "k_main", "k_collect", "k_close",
            "k_returned", "k_raised"} =>
        /\ \A j \in Sends(MainFrame(run.method, run.namespace)) :
              \E i \in Sends(HandshakeFrame(run.namespace)) :
                 /\ i < j
                 /\ \E r \in Reads : r < i
                 /\ \E r \in Reads : i < r /\ r < j
        /\ run.responses > 0 => run.wait_for_response
        /\ run.responses <= Max(0, run.max_response_frames)
        /\ run.ended \in {"timeout", "closed", "none"} => run.exc = ""
        /\ (pc \in {"k_returned", "k_raised"} /\ run.ops # <<>>) =>
              run.ops[Len(run.ops)] = <<"close">>

\* a call in a namespace has collected a frame and was then cut off by the
\* server
C35_ClosedWhileCollecting ==
    /\ pc = "k_returned"
    /\ run.namespace = "/chat"
    /\ run.responses = 1
    /\ run.ended = "closed"

\* ------------------------------------------------------------------ C31
\* the assistant turns of the first n attempts, in attempt order
AssistantTurns(n) == [k \in 1..n |-> ChatMessage("assistant", RawOutput(k - 1))]

\* the replies the run has received: one per appended attempt, and that of
\* the attempt under way once its LLM call has returned
RepliesReceived == Len(attempts) + (IF run.raw_output # "" THEN 1 ELSE 0)

\* the feedback user turn the attempt under way was sent: that of the
\* attempt appended last, if any
FeedbackOfPrevious ==
    IF attempts # <<>> /\ attempts[Len(attempts)].feedback # NoneVal
           /\ attempts[Len(attempts)].feedback[1] # <<>>
    THEN <<ChatMessage("user", attempts[Len(attempts)].feedback[1])>>
    ELSE <<>>

LastAttempt == attempts[Len(attempts)]

\* C33: the history holds one entry per completed attempt, with
\* attempt_index 0, 1, 2, ... in order, and the raw_output, messages,
\* saved_paths and validation_results of the result a run returns are those
\* of the last entry, whichever attempt recorded the hit.
C33_ResultIsLastAttempt ==
    /\ \A i \in DOMAIN attempts : attempts[i].attempt_index = i - 1
    /\ pc = "returned" =>
          /\ Len(attempts) = run.started
          /\ GenerationResult(run, attempts).raw_output = LastAttempt.raw_output
          /\ GenerationResult(run, attempts).requests = LastAttempt.have_requests
          /\ GenerationResult(run, attempts).saved_paths = LastAttempt.saved
          /\ GenerationResult(run, attempts).validation_results = LastAttempt.validation

\* a run returns success from the hit of its first attempt, its second and
\* last attempt had none
C33_SuccessFromEarlierAttempt ==
    /\ pc = "returned"
    /\ GenerationResult(run, attempts).success
    /\ Len(attempts) = 2
    /\ attempts[1].monitor_hit
    /\ ~attempts[2].monitor_hit
    /\ GenerationResult(run, attempts).raw_output = RawOutput(1)

\* ------------------------------------------------------------------ C36
\* the message the parse loop keeps for a block
KeptFor(raw) == IF HttpParse(raw).raised THEN Placeholder(raw) ELSE HttpParse(raw).value

\* C36: validation warnings and parse failures never block replay: with
\* replay enabled, a target and at least one block, the remote validator is
\* called with the whole list, one message per block, the messages with
\* warnings and the placeholders of the blocks that do not parse among
\* them; a placeholder is sent with method POST to the base URL of the
\* target with the raw block as body, and a call that returns has sent
\* every message.
C36_IssuesNeverBlockReplay ==
    pc \in {"y_loop", "y_done"} /\ cfg.auto_validate /\ cfg.has_target
        /\ run.raw_messages # <<>> =>
        /\ run.invoked # NoneVal
        /\ run.invoked[1] = [i \in DOMAIN run.raw_messages |-> KeptFor(run.raw_messages[i])]
        /\ \A i \in DOMAIN run.sent :
              HttpParse(run.raw_messages[i]).raised =>
                  run.sent[i] = [method |-> "POST", url |-> <<TargetBase, "">>,
                                 headers |-> <<>>,
                                 content |-> Some(run.raw_messages[i])]
        /\ run.validation_results # NoneVal => Len(run.sent) = Len(run.raw_messages)

\* a message with warnings and a placeholder have both been sent
C36_WarnedAndPlaceholderSent ==
    /\ pc = "y_done"
    /\ Len(run.sent) = 2
    /\ run.raw_messages[1] = <<ReqLineOld, BodyLine>>
    /\ validate_http_message(run.invoked[1][1]) # <<>>
    /\ run.raw_messages[2] = <<ShortLine>>
    /\ run.sent[2].method = "POST"
    /\ run.sent[2].content = Some(<<ShortLine>>)

\* ------------------------------------------------------------------ C40
\* C40: an attempt waits on the oracle only if the remote validator was
\* called on its messages in that same attempt; an attempt whose replay was
\* skipped neither waits nor records a hit.
C40_WaitsOnlyAfterReplay ==
    /\ run.waited => run.replayed
    /\ \A i \in DOMAIN attempts :
          ~attempts[i].replayed => ~attempts[i].waited /\ ~attempts[i].monitor_hit

\* ------------------------------------------------------------------ C37
\* C37: the polls of other runs through /_status?clear=1 are read-only
\* with respect to the owner: when a hit was recorded while the owner was
\* not at the wait of wait_for_hit, the owner's next wait_for_hit returns
\* true, whatever polls were handled in between.
C37_PollsLeaveOwnersHit ==
    [][(w.pc = "wait" /\ w'.pc # "wait" /\ aux.unseen) => w'.result]_vars

\* ------------------------------------------------------------------ C38
\* C38: in a listening monitor, whenever the hit flag is set the hit
\* timestamp and the summary are there, also when a clear=1 status request
\* is handled on one handler thread while a callback is recorded on
\* another; so no status response reports a hit with hit_time 0.
C38_HitHasTimestampAndSummary ==
    /\ \A m \in MonIds :
          mon[m].server /\ mon[m].event =>
              mon[m].last_hit_ts # NoneVal /\ mon[m].last_request_summary # NoneVal
    /\ \A h \in Handlers :
          (thr[h].resp # NoneVal /\ thr[h].resp[1].code = 200
              /\ IsStatusPath(thr[h].req[1].path) /\ thr[h].resp[1].body.hit)
          => thr[h].resp[1].body.hit_time > 0

\* ------------------------------------------------------------------ C39
\* C39: in owned mode a callback recorded before wait_for_hit is called is
\* not lost: the hit event, once set, stays set until a wait_for_hit that
\* returned true clears it, so the next wait_for_hit returns true at once.
C39_EventStaysUntilWait ==
    [][(mon["run"].server /\ mon["run"].event /\ ~mon'["run"].event)
           => (w.pc = "clear" /\ w.result /\ w'.pc = "ret")]_vars

====
